---- MODULE Spec2Model ----
(***************************************************************************)
(* Text-mode candlestick renderer of lazywallet                            *)
(* (src/src/ui/candlestick_text.rs) as a state machine.                    *)
(*                                                                         *)
(* Numbers.  Prices are f64 in the source.  Here a candle's prices are     *)
(* integers (price units) and every derived quantity is an exact rational: *)
(*   - min_price / max_price are kept multiplied by MarginDenominator      *)
(*     (the 2% margin is 1/50 of the range, so 50 * bound is an integer);  *)
(*   - a height coordinate is a record [num, den] with den > 0.            *)
(* Comparisons with 0.25 and 0.75 are done on the cross-multiplied         *)
(* integers.  f64 rounding error is therefore not modelled: the model is   *)
(* the renderer over the reals.                                            *)
(*                                                                         *)
(* Text.  A char is a one-token string; a String is a sequence of chars.   *)
(* The box-drawing glyphs are written with ASCII stand-ins (see the        *)
(* UNICODE_* definitions).  A Span is [content, fg]; a Line is a sequence  *)
(* of spans.                                                               *)
(*                                                                         *)
(* Event loop.  The App (src/src/app.rs) is the record app; handle_event   *)
(* and the run loop (src/src/main.rs) act on it, the worker thread turns   *)
(* the commands sent on command_tx into results on result_rx.  Under       *)
(* SpecApp and SpecIntervals the worker serves a command in one step, so   *)
(* is_loading is false between steps; under SpecLoop both threads go step  *)
(* by step, every app.lock() call being a step, and the process ends when  *)
(* run returns.  OHLCData carries symbol, interval and timeframe there,    *)
(* not the candles.                                                        *)
(***************************************************************************)
EXTENDS Integers, Sequences, FiniteSets, TLC

VARIABLES
    candles,      \* the candle series handed to the renderer (OHLCData.candles)
    interval,     \* granularity of the series (OHLCData.interval)
    area,         \* viewport Rect given to CandlestickRenderer::new
    renderer,     \* the CandlestickRenderer built by new, or NoRenderer
    lines,        \* result of render_lines: [status, lines]
    pc,           \* position of the draw cycle / of the planner call
    chart_width,  \* argument of compute_candle_positions
    num_candles,  \* argument of compute_candle_positions
    positions,    \* result of compute_candle_positions
    item,         \* app.watchlist.get(app.selected_index) and its data
    frame,        \* what render_candlestick_chart drew on the frame
    app,          \* the App shared by the event loop and the worker
    commands,     \* AppCommands sent on command_tx, not yet received
    results,      \* AppResults sent on result_tx, not yet received
    trace,        \* the last key pressed and the interval shift (for the properties)
    drawn,        \* the first draw made: its inputs and its lines (for the properties)
    mutex,        \* the thread holding the Mutex<App>, or Unlocked
    worker,       \* the worker thread: its position, the command it serves, the fetch outcome
    ui,           \* the run loop: its position, the result and the event it holds
    log           \* the reloads asked for and the results applied (for the properties)

rendervars == <<candles, interval, area, renderer, lines, pc,
                chart_width, num_candles, positions, item, frame, drawn>>
appvars == <<app, commands, results, trace>>
loopvars == <<mutex, worker, ui, log>>
vars == <<rendervars, appvars, loopvars>>

----------------------------------------------------------------------------
(* Bounds of the model *)

MaxChartWidth == 12
MaxNumCandles == 26
MaxCandles == 2
MaxHistory == 2
\* longest series of the axis specification
MaxAxisCandles == 72
MaxInput == 1
MaxWatchlist == 3
MaxInFlight == 1

----------------------------------------------------------------------------
(* Constants of the program *)

UNICODE_VOID == " "
UNICODE_BODY == "B"
UNICODE_HALF_BODY_BOTTOM == "b"
UNICODE_HALF_BODY_TOP == "p"
UNICODE_WICK == "|"
UNICODE_TOP == "T"
UNICODE_BOTTOM == "L"
UNICODE_UPPER_WICK == ","
UNICODE_LOWER_WICK == "'"

BULLISH_COLOR == "bullish"
BEARISH_COLOR == "bearish"

Y_AXIS_WIDTH == 12
MIN_TERMINAL_WIDTH == 80
ADAPTIVE_Y_AXIS_THRESHOLD == 80
NARROW_Y_AXIS_WIDTH == 8
MAX_VISIBLE_CANDLES == 250

\* margin = (max_price - min_price) * 0.02, i.e. range / 50
MarginDenominator == 50

----------------------------------------------------------------------------
(* Arithmetic helpers *)

Min(a, b) == IF a <= b THEN a ELSE b
Max(a, b) == IF a >= b THEN a ELSE b

\* u16 / usize saturating_sub
SaturatingSub(a, b) == IF a >= b THEN a - b ELSE 0

\* f64::floor and f64::ceil of the rational q = q.num / q.den (den > 0)
Floor(q) == q.num \div q.den
Ceil(q) == -((-q.num) \div q.den)

\* q - y for an integer row y
MinusRow(q, y) == [num |-> q.num - y * q.den, den |-> q.den]

\* q > k/4 and q < k/4 (k = 1 for 0.25, k = 3 for 0.75)
GtQuarters(q, k) == 4 * q.num > k * q.den
LtQuarters(q, k) == 4 * q.num < k * q.den

\* f64::round of the non-negative rational a / b: half away from zero
Round(a, b) == (2 * a + b) \div (2 * b)

----------------------------------------------------------------------------
(* PositionPlanner: CandlestickRenderer::compute_candle_positions *)

CandlePosition(col) == [column |-> col, width |-> 1]

\* Variants of compute_candle_positions with a plausible slip each:
\* the column accumulated from the previous one (previous + rounded spacing),
\* the column wrapped around instead of clamped, and the column not clamped.
compute_candle_positions_accumulated(w, n) ==
    IF n = 0 THEN << >>
    ELSE IF n = 1 THEN << CandlePosition(w \div 2) >>
    ELSE [k \in 1..n |->
            CandlePosition(Min((k - 1) * Round(w, n), SaturatingSub(w, 1)))]

compute_candle_positions_wrapping(w, n) ==
    IF n = 0 THEN << >>
    ELSE IF n = 1 THEN << CandlePosition(w \div 2) >>
    ELSE [k \in 1..n |->
            CandlePosition(IF w = 0 THEN 0 ELSE Round((k - 1) * w, n) % w)]

compute_candle_positions_unclamped(w, n) ==
    IF n = 0 THEN << >>
    ELSE IF n = 1 THEN << CandlePosition(w \div 2) >>
    ELSE [k \in 1..n |-> CandlePosition(Round((k - 1) * w, n))]

\* compute_candle_positions without the single-candle special case
compute_candle_positions_uncentred(w, n) ==
    IF n = 0 THEN << >>
    ELSE [k \in 1..n |->
            CandlePosition(Min(Round((k - 1) * w, n), SaturatingSub(w, 1)))]

compute_candle_positions(w, n) ==
    IF n = 0 THEN << >>
    ELSE IF n = 1 THEN << CandlePosition(w \div 2) >>
    ELSE [k \in 1..n |->
            \* candle index i = k - 1; exact_position = i * (w / n)
            CandlePosition(Min(Round((k - 1) * w, n), SaturatingSub(w, 1)))]

----------------------------------------------------------------------------
(* Data model: OHLC (src/src/models/ohlc.rs) *)

\* DateTime<Utc> reduced to its calendar fields
Timestamp(y, mo, d, h, mi) ==
    [year |-> y, month |-> mo, day |-> d, hour |-> h, minute |-> mi]

OHLC(ts, o, h, l, c) ==
    [timestamp |-> ts, open |-> o, high |-> h, low |-> l, close |-> c]

----------------------------------------------------------------------------
(* Visible window: CandlestickRenderer::get_visible_slice *)

get_visible_slice(cs) ==
    IF Len(cs) <= MAX_VISIBLE_CANDLES
    THEN cs
    ELSE SubSeq(cs, Len(cs) - MAX_VISIBLE_CANDLES + 1, Len(cs))

----------------------------------------------------------------------------
(* PriceScaler: compute_price_bounds and price_to_height *)

\* f64::INFINITY and f64::NEG_INFINITY, the fold seeds that survive an
\* empty slice
PosInfinity == "+inf"
NegInfinity == "-inf"

\* fold(NEG_INFINITY, |max, c| max.max(c.high)) over candles lo..hi of a
\* non-empty slice (the seed gives way to the first high); max is
\* associative, so the fold is evaluated by halves to keep the nesting low
RECURSIVE FoldMaxHigh(_, _, _)
FoldMaxHigh(cs, lo, hi) ==
    IF lo = hi THEN cs[lo].high
    ELSE LET mid == (lo + hi) \div 2
         IN  Max(FoldMaxHigh(cs, lo, mid), FoldMaxHigh(cs, mid + 1, hi))

RECURSIVE FoldMinLow(_, _, _)
FoldMinLow(cs, lo, hi) ==
    IF lo = hi THEN cs[lo].low
    ELSE LET mid == (lo + hi) \div 2
         IN  Min(FoldMinLow(cs, lo, mid), FoldMinLow(cs, mid + 1, hi))

\* compute_price_bounds without the .max(0.0) on the lower bound
compute_price_bounds_unclamped(cs) ==
    IF Len(cs) = 0
    THEN << PosInfinity, NegInfinity >>
    ELSE LET max_price == FoldMaxHigh(cs, 1, Len(cs))
             min_price == FoldMinLow(cs, 1, Len(cs))
             margin50 == max_price - min_price
         IN  << MarginDenominator * min_price - margin50,
                MarginDenominator * max_price + margin50 >>

\* Result is <<min_price, max_price>>, both multiplied by MarginDenominator.
\* On an empty slice: margin = -inf, min - margin = +inf, max + margin = -inf.
compute_price_bounds(cs) ==
    IF Len(cs) = 0
    THEN << PosInfinity, NegInfinity >>
    ELSE LET max_price == FoldMaxHigh(cs, 1, Len(cs))
             min_price == FoldMinLow(cs, 1, Len(cs))
             margin50 == max_price - min_price
         IN  << Max(MarginDenominator * min_price - margin50, 0),
                MarginDenominator * max_price + margin50 >>

\* price_to_height whose flat case returns height instead of height / 2
price_to_height_full_height(r, price50) ==
    IF r.max_price = r.min_price
    THEN [num |-> r.height, den |-> 1]
    ELSE [num |-> (price50 - r.min_price) * r.height,
          den |-> r.max_price - r.min_price]

\* price50 is the price multiplied by MarginDenominator
price_to_height(r, price50) ==
    IF r.max_price = r.min_price
    THEN [num |-> r.height, den |-> 2]
    ELSE [num |-> (price50 - r.min_price) * r.height,
          den |-> r.max_price - r.min_price]

----------------------------------------------------------------------------
(* Colour: is_bullish and candle_color *)

\* is_bullish with a strict comparison
is_bullish_strict(candle) == candle.close > candle.open

is_bullish(candle) == candle.close >= candle.open

candle_color(candle) ==
    IF is_bullish(candle) THEN BULLISH_COLOR ELSE BEARISH_COLOR

----------------------------------------------------------------------------
(* GlyphSelector: CandlestickRenderer::render_candle *)

\* render_candle whose upper-wick zone starts at max_y.ceil() instead of
\* max_y.floor()
render_candle_ceil_top(r, candle, y) ==
    LET high_y == price_to_height(r, MarginDenominator * candle.high)
        low_y  == price_to_height(r, MarginDenominator * candle.low)
        max_y  == price_to_height(r, MarginDenominator * Max(candle.open, candle.close))
        min_y  == price_to_height(r, MarginDenominator * Min(candle.close, candle.open))
    IN
    IF Ceil(high_y) >= y /\ y >= Ceil(max_y) THEN
        \* zone 1: upper wick
        IF GtQuarters(MinusRow(max_y, y), 3) THEN UNICODE_BODY
        ELSE IF GtQuarters(MinusRow(max_y, y), 1) THEN
            IF GtQuarters(MinusRow(high_y, y), 3)
            THEN UNICODE_TOP
            ELSE UNICODE_HALF_BODY_BOTTOM
        ELSE IF GtQuarters(MinusRow(high_y, y), 3) THEN UNICODE_WICK
        ELSE IF GtQuarters(MinusRow(high_y, y), 1) THEN UNICODE_UPPER_WICK
        ELSE UNICODE_VOID
    ELSE IF Floor(max_y) >= y /\ y >= Ceil(min_y) THEN
        \* zone 2: body
        UNICODE_BODY
    ELSE IF Ceil(min_y) >= y /\ y >= Floor(low_y) THEN
        \* zone 3: lower wick
        IF LtQuarters(MinusRow(min_y, y), 1) THEN UNICODE_BODY
        ELSE IF LtQuarters(MinusRow(min_y, y), 3) THEN
            IF LtQuarters(MinusRow(low_y, y), 1)
            THEN UNICODE_BOTTOM
            ELSE UNICODE_HALF_BODY_TOP
        ELSE IF LtQuarters(MinusRow(low_y, y), 1) THEN UNICODE_WICK
        ELSE IF LtQuarters(MinusRow(low_y, y), 3) THEN UNICODE_LOWER_WICK
        ELSE UNICODE_VOID
    ELSE UNICODE_VOID


render_candle(r, candle, y) ==
    LET high_y == price_to_height(r, MarginDenominator * candle.high)
        low_y  == price_to_height(r, MarginDenominator * candle.low)
        max_y  == price_to_height(r, MarginDenominator * Max(candle.open, candle.close))
        min_y  == price_to_height(r, MarginDenominator * Min(candle.close, candle.open))
    IN
    IF Ceil(high_y) >= y /\ y >= Floor(max_y) THEN
        \* zone 1: upper wick
        IF GtQuarters(MinusRow(max_y, y), 3) THEN UNICODE_BODY
        ELSE IF GtQuarters(MinusRow(max_y, y), 1) THEN
            IF GtQuarters(MinusRow(high_y, y), 3)
            THEN UNICODE_TOP
            ELSE UNICODE_HALF_BODY_BOTTOM
        ELSE IF GtQuarters(MinusRow(high_y, y), 3) THEN UNICODE_WICK
        ELSE IF GtQuarters(MinusRow(high_y, y), 1) THEN UNICODE_UPPER_WICK
        ELSE UNICODE_VOID
    ELSE IF Floor(max_y) >= y /\ y >= Ceil(min_y) THEN
        \* zone 2: body
        UNICODE_BODY
    ELSE IF Ceil(min_y) >= y /\ y >= Floor(low_y) THEN
        \* zone 3: lower wick
        IF LtQuarters(MinusRow(min_y, y), 1) THEN UNICODE_BODY
        ELSE IF LtQuarters(MinusRow(min_y, y), 3) THEN
            IF LtQuarters(MinusRow(low_y, y), 1)
            THEN UNICODE_BOTTOM
            ELSE UNICODE_HALF_BODY_TOP
        ELSE IF LtQuarters(MinusRow(low_y, y), 1) THEN UNICODE_WICK
        ELSE IF LtQuarters(MinusRow(low_y, y), 3) THEN UNICODE_LOWER_WICK
        ELSE UNICODE_VOID
    ELSE UNICODE_VOID


----------------------------------------------------------------------------
(* Text helpers: Rust format! as sequences of chars *)

NoColor == "none"
GRAY == "gray"
DATE_GRAY == "rgb(120,120,120)"

\* Span::raw(content) and Span::styled(content, Style::default().fg(color))
SpanRaw(content) == [content |-> content, fg |-> NoColor]
SpanStyled(content, color) == [content |-> content, fg |-> color]

\* vec![' '; n] and format!("{:>n$}", "")
Blanks(n) == [i \in 1..n |-> " "]

DigitChar(d) == << "0", "1", "2", "3", "4", "5", "6", "7", "8", "9" >>[d + 1]

RECURSIVE Digits(_)
Digits(n) == IF n < 10 THEN << DigitChar(n) >>
             ELSE Digits(n \div 10) \o << DigitChar(n % 10) >>

\* "{:>w$}": right-align in a field of at least w chars
PadLeft(str, w) == IF Len(str) >= w THEN str ELSE Blanks(w - Len(str)) \o str

\* nearest integer to a / b (a >= 0, b > 0), ties to even: the rounding of
\* "{:.2}" applied to the hundredths
RoundHalfEven(a, b) ==
    LET q == a \div b
        rem == a % b
    IN  IF 2 * rem > b THEN q + 1
        ELSE IF 2 * rem < b THEN q
        ELSE IF q % 2 = 0 THEN q ELSE q + 1

\* "{:.2}" of the non-negative amount cents / 100
FormatFixed2(cents) ==
    Digits(cents \div 100) \o << "." >>
        \o << DigitChar((cents \div 10) % 10), DigitChar(cents % 10) >>

----------------------------------------------------------------------------
(* Y axis: CandlestickRenderer::render_y_axis *)

\* price = min_price + y * (max_price - min_price) / height, in hundredths
YAxisPriceCents(r, y) ==
    RoundHalfEven(2 * (r.min_price * r.height + y * (r.max_price - r.min_price)),
                  r.height)

render_y_axis(r, y) ==
    IF y % 4 = 0
    THEN PadLeft(FormatFixed2(YAxisPriceCents(r, y)), 9) \o << " ", "|", " " >>
    ELSE PadLeft(<< >>, 9) \o << " ", "|", " " >>

----------------------------------------------------------------------------
(* GridRenderer: one candle row of render_lines *)

\* greatest element of a non-empty set of indices
Last(S) == CHOOSE k \in S : \A j \in S : j <= k

\* candles placed in chart column c (0-based) by
\* "for (candle, pos) in visible.iter().zip(positions.iter())"
CandlesAt(visible, pos, c) ==
    { k \in 1..Min(Len(visible), Len(pos)) : pos[k].column = c }

\* line_chars and line_colors after the placement loop: a later candle
\* overwrites an earlier one that shares its column, so a column shows the
\* last candle placed in it.  Column c is index c + 1; a column outside the
\* row (pos.column >= line_chars.len()) is index of nothing and is skipped.
PlaceCandles(r, y, visible, pos) ==
    [line_chars |->
        [idx \in 1..r.width |->
            IF CandlesAt(visible, pos, idx - 1) = {} THEN " "
            ELSE render_candle(r, visible[Last(CandlesAt(visible, pos, idx - 1))], y)],
     line_colors |->
        [idx \in 1..r.width |->
            IF CandlesAt(visible, pos, idx - 1) = {} THEN NoColor
            ELSE candle_color(visible[Last(CandlesAt(visible, pos, idx - 1))])]]

EmitSpan(current_string, current_color) ==
    IF current_color # NoColor
    THEN SpanStyled(current_string, current_color)
    ELSE SpanRaw(current_string)

\* indices where the run-length loop starts a span: the first cell, and
\* every cell whose colour differs from current_color, which is the colour
\* of the cell before it
SpanStarts(cells) ==
    { i \in 1..Len(cells.line_chars) :
        i = 1 \/ cells.line_colors[i] # cells.line_colors[i - 1] }

\* the k-th span start, in increasing order
SpanStart(cells, k) ==
    CHOOSE s \in SpanStarts(cells) :
        Cardinality({ t \in SpanStarts(cells) : t <= s }) = k

\* the cell that closes the k-th span: the one before the next start, or
\* the last cell for the span emitted after the loop
SpanEnd(cells, k) ==
    IF k = Cardinality(SpanStarts(cells))
    THEN Len(cells.line_chars)
    ELSE SpanStart(cells, k + 1) - 1

\* a row of one span per cell: the loop without the colour comparison
EncodeSpans_per_cell(cells, spans) ==
    spans \o [i \in 1..Len(cells.line_chars) |->
                 EmitSpan(<< cells.line_chars[i] >>, cells.line_colors[i])]

\* the run-length loop over line_chars[1..] and the final emission, pushed
\* after the spans the row already has
EncodeSpans(cells, spans) ==
    spans \o [k \in 1..Cardinality(SpanStarts(cells)) |->
                 EmitSpan(SubSeq(cells.line_chars, SpanStart(cells, k), SpanEnd(cells, k)),
                          cells.line_colors[SpanStart(cells, k)])]

\* body of the loop "for y in (1..=self.height).rev()"; needs width >= 1
\* (line_colors[0] is read unconditionally)
RenderRow(r, y, visible, pos) ==
    LET cells == PlaceCandles(r, y, visible, pos)
    IN  EncodeSpans(cells, << SpanStyled(render_y_axis(r, y), GRAY) >>)


----------------------------------------------------------------------------
(* Granularity tables: Interval and LabelStrategy (src/src/models/ohlc.rs) *)

Interval == { "M5", "M15", "M30", "H1", "H4", "D1", "W1" }

RoundHours(n)    == [tag |-> "RoundHours", interval_hours |-> n]
DayChanges       == [tag |-> "DayChanges"]
RegularDays(n)   == [tag |-> "RegularDays", interval_days |-> n]
RegularWeeks(n)  == [tag |-> "RegularWeeks", interval_days |-> n]
RegularMonths(n) == [tag |-> "RegularMonths", interval_months |-> n]
RegularYears(n)  == [tag |-> "RegularYears", interval_years |-> n]

NoFormat == "None"

AxisFormats(time_format, date_format, label_strategy) ==
    [time_format |-> time_format, date_format |-> date_format,
     label_strategy |-> label_strategy]

x_axis_format(i) ==
    CASE i = "M5"  -> AxisFormats("%H:%M", "%d/%m", RoundHours(1))
      [] i = "M15" -> AxisFormats("%H:%M", "%d/%m", RoundHours(3))
      [] i = "M30" -> AxisFormats("%H:%M", "%d/%m", RoundHours(6))
      [] i = "H1"  -> AxisFormats(NoFormat, "%d/%m", RegularDays(2))
      [] i = "H4"  -> AxisFormats(NoFormat, "%b", RegularMonths(1))
      [] i = "D1"  -> AxisFormats(NoFormat, "%b", RegularMonths(1))
      [] i = "W1"  -> AxisFormats(NoFormat, "%Y", RegularYears(1))

is_intraday(i) == i \in { "M5", "M15", "M30", "H1", "H4" }

----------------------------------------------------------------------------
(* Calendar: what chrono computes on the timestamps *)

Abs(x) == IF x < 0 THEN -x ELSE x

\* number of days from 1970-01-01 to the civil date (proleptic Gregorian);
\* NaiveDate differences are differences of this count
DaysFromCivil(y, m, d) ==
    LET yy  == IF m <= 2 THEN y - 1 ELSE y
        era == yy \div 400
        yoe == yy - era * 400
        mp  == IF m > 2 THEN m - 3 ELSE m + 9
        doy == (153 * mp + 2) \div 5 + d - 1
        doe == yoe * 365 + yoe \div 4 - yoe \div 100 + doy
    IN  era * 146097 + doe - 719468

date_naive(ts) == << ts.year, ts.month, ts.day >>

num_days(ts) == DaysFromCivil(ts.year, ts.month, ts.day)

Digits2(n) == << DigitChar((n \div 10) % 10), DigitChar(n % 10) >>

MonthAbbrev(m) ==
    << << "J", "a", "n" >>, << "F", "e", "b" >>, << "M", "a", "r" >>,
       << "A", "p", "r" >>, << "M", "a", "y" >>, << "J", "u", "n" >>,
       << "J", "u", "l" >>, << "A", "u", "g" >>, << "S", "e", "p" >>,
       << "O", "c", "t" >>, << "N", "o", "v" >>, << "D", "e", "c" >> >>[m]

\* timestamp.format(fmt).to_string() for the four formats of x_axis_format
\* (years 0..9999: %Y is zero-padded to four digits)
FormatTimestamp(ts, fmt) ==
    CASE fmt = "%H:%M" -> Digits2(ts.hour) \o << ":" >> \o Digits2(ts.minute)
      [] fmt = "%d/%m" -> Digits2(ts.day) \o << "/" >> \o Digits2(ts.month)
      [] fmt = "%b"    -> MonthAbbrev(ts.month)
      [] fmt = "%Y"    -> Digits2(ts.year \div 100) \o Digits2(ts.year % 100)

----------------------------------------------------------------------------
(* AxisLabeler: should_show_label and render_x_axis *)

\* Option<&OHLC>: None is the empty sequence, Some(c) the sequence of c alone
NoCandle == << >>
SomeCandle(c) == << c >>

should_show_label(candle, prev_candle, strategy) ==
    CASE strategy.tag = "RoundHours" ->
            /\ candle.timestamp.hour % strategy.interval_hours = 0
            /\ candle.timestamp.minute = 0
      [] strategy.tag = "DayChanges" ->
            IF prev_candle # NoCandle
            THEN date_naive(candle.timestamp) # date_naive(prev_candle[1].timestamp)
            ELSE TRUE
      [] strategy.tag \in { "RegularDays", "RegularWeeks" } ->
            IF prev_candle # NoCandle
            THEN Abs(num_days(candle.timestamp) - num_days(prev_candle[1].timestamp))
                    >= strategy.interval_days
            ELSE TRUE
      [] strategy.tag = "RegularMonths" ->
            IF prev_candle # NoCandle
            THEN Abs((candle.timestamp.year - prev_candle[1].timestamp.year) * 12
                     + (candle.timestamp.month - prev_candle[1].timestamp.month))
                    >= strategy.interval_months
            ELSE TRUE
      [] strategy.tag = "RegularYears" ->
            IF prev_candle # NoCandle
            THEN Abs(candle.timestamp.year - prev_candle[1].timestamp.year)
                    >= strategy.interval_years
            ELSE TRUE

\* render_x_axis without the is_narrow adjustment
AdjustedStrategy_never_doubled(r, label_strategy) == label_strategy

\* is_narrow doubles the period of RoundHours and RegularDays only
AdjustedStrategy(r, label_strategy) ==
    IF r.width < 80
    THEN CASE label_strategy.tag = "RoundHours" ->
                RoundHours(label_strategy.interval_hours * 2)
           [] label_strategy.tag = "RegularDays" ->
                RegularDays(label_strategy.interval_days * 2)
           [] OTHER -> label_strategy
    ELSE label_strategy

DateStrategy(label_strategy) ==
    IF label_strategy.tag = "RoundHours" THEN DayChanges ELSE label_strategy

PrevCandle(visible, i) == IF i = 1 THEN NoCandle ELSE SomeCandle(visible[i - 1])

\* candles that get a label under the strategy
Labelled(visible, pos, strategy) ==
    { k \in 1..Min(Len(visible), Len(pos)) :
        should_show_label(visible[k], PrevCandle(visible, k), strategy) }

\* line 1: a tick mark in the column of every labelled candle
TickLine(visible, pos, strategy, width) ==
    [idx \in 1..width |->
        IF \E k \in Labelled(visible, pos, strategy) : pos[k].column = idx - 1
        THEN UNICODE_WICK
        ELSE " "]

\* where the label of candle k goes: centred on its column, clipped
LabelStart(pos, k, label) == SaturatingSub(pos[k].column, Len(label) \div 2)
LabelEnd(pos, k, label, width) == Min(LabelStart(pos, k, label) + Len(label), width)

\* writes label into line from label_start, clipped at label_end
WriteLabel(line, label, label_start, label_end) ==
    [idx \in 1..Len(line) |->
        IF idx - 1 >= label_start /\ idx - 1 < label_end
           /\ idx - 1 - label_start < Len(label)
        THEN label[idx - label_start]
        ELSE line[idx]]

\* line 2: times; every label is written over whatever is there, so a cell
\* shows the char of the last labelled candle whose label covers it
TimeLine(visible, pos, strategy, time_fmt, width) ==
    [idx \in 1..width |->
        LET covering ==
                { k \in Labelled(visible, pos, strategy) :
                    LET time_label == FormatTimestamp(visible[k].timestamp, time_fmt)
                    IN  /\ idx - 1 >= LabelStart(pos, k, time_label)
                        /\ idx - 1 < LabelEnd(pos, k, time_label, width) }
        IN  IF covering = {} THEN " "
            ELSE LET k == Last(covering)
                     time_label == FormatTimestamp(visible[k].timestamp, time_fmt)
                 IN  time_label[idx - LabelStart(pos, k, time_label)]]

\* the indices of a set in increasing order
RECURSIVE InOrder(_)
InOrder(S) ==
    IF S = {} THEN << >>
    ELSE Append(InOrder(S \ { Last(S) }), Last(S))

\* the date loop without the has_overlap test
RECURSIVE DateLine_overwriting(_, _, _, _, _, _)
DateLine_overwriting(visible, pos, ks, date_format, i, date_line) ==
    IF i > Len(ks) THEN date_line
    ELSE LET date_label == FormatTimestamp(visible[ks[i]].timestamp, date_format)
             date_start == LabelStart(pos, ks[i], date_label)
             date_end   == LabelEnd(pos, ks[i], date_label, Len(date_line))
         IN  DateLine_overwriting(visible, pos, ks, date_format, i + 1,
                 WriteLabel(date_line, date_label, date_start, date_end))

\* line 3: dates, in candle order over the labelled candles ks[i..]; a label
\* is skipped when its span holds a written char
RECURSIVE DateLine(_, _, _, _, _, _)
DateLine(visible, pos, ks, date_format, i, date_line) ==
    IF i > Len(ks) THEN date_line
    ELSE LET date_label  == FormatTimestamp(visible[ks[i]].timestamp, date_format)
             date_start  == LabelStart(pos, ks[i], date_label)
             date_end    == LabelEnd(pos, ks[i], date_label, Len(date_line))
             has_overlap == \E idx \in date_start..(date_end - 1) :
                                date_line[idx + 1] # " "
         IN  DateLine(visible, pos, ks, date_format, i + 1,
                      IF ~has_overlap
                      THEN WriteLabel(date_line, date_label, date_start, date_end)
                      ELSE date_line)

render_x_axis(r, visible, pos) ==
    LET axis_formats      == x_axis_format(r.interval)
        label_strategy    == axis_formats.label_strategy
        adjusted_strategy == AdjustedStrategy(r, label_strategy)
        date_strategy     == DateStrategy(label_strategy)
        tick_spans ==
            << SpanRaw(Blanks(r.y_axis_width)),
               SpanStyled(TickLine(visible, pos, adjusted_strategy, r.width), GRAY) >>
        time_spans ==
            IF axis_formats.time_format # NoFormat
            THEN << SpanRaw(Blanks(r.y_axis_width)),
                    SpanStyled(TimeLine(visible, pos, adjusted_strategy,
                                        axis_formats.time_format, r.width), GRAY) >>
            ELSE << SpanRaw(Blanks(r.y_axis_width + r.width)) >>
        date_spans ==
            << SpanRaw(Blanks(r.y_axis_width)),
               SpanStyled(DateLine(visible, pos,
                                   InOrder(Labelled(visible, pos, date_strategy)),
                                   axis_formats.date_format, 1,
                                   Blanks(r.width)), DATE_GRAY) >>
    IN  << tick_spans, time_spans, date_spans >>


----------------------------------------------------------------------------
(* CandlestickRenderer::new and render_lines *)

\* the renderer lives only during a draw: << >> outside, << r >> inside
NoRenderer == << >>

Rect(w, h) == [width |-> w, height |-> h]

\* new with the price bounds taken over the whole series (the earlier
\* revision of the renderer) instead of the visible window
new_full_series_bounds(cs, i, a) ==
    LET bounds  == compute_price_bounds(cs)
        y_axis_width == IF a.width < ADAPTIVE_Y_AXIS_THRESHOLD
                        THEN NARROW_Y_AXIS_WIDTH
                        ELSE Y_AXIS_WIDTH
    IN  [candles      |-> cs,
         interval     |-> i,
         min_price    |-> bounds[1],
         max_price    |-> bounds[2],
         height       |-> SaturatingSub(a.height, 6),
         width        |-> SaturatingSub(a.width, y_axis_width),
         y_axis_width |-> y_axis_width]

new(cs, i, a) ==
    LET visible == get_visible_slice(cs)
        bounds  == compute_price_bounds(visible)
        y_axis_width == IF a.width < ADAPTIVE_Y_AXIS_THRESHOLD
                        THEN NARROW_Y_AXIS_WIDTH
                        ELSE Y_AXIS_WIDTH
    IN  [candles      |-> cs,
         interval     |-> i,
         min_price    |-> bounds[1],
         max_price    |-> bounds[2],
         height       |-> SaturatingSub(a.height, 6),
         width        |-> SaturatingSub(a.width, y_axis_width),
         y_axis_width |-> y_axis_width]

visible_candles(r) == get_visible_slice(r.candles)

\* the row loop without .rev(): rows emitted for y = 1, 2, ..., height
CandleRows_bottom_up(r, visible, pos) ==
    [k \in 1..r.height |-> RenderRow(r, k, visible, pos)]

\* the rows for y = height, height - 1, ..., 1, top row first
CandleRows(r, visible, pos) ==
    [k \in 1..r.height |-> RenderRow(r, r.height + 1 - k, visible, pos)]

Ok(ls) == [status |-> "ok", lines |-> ls]
\* index out of bounds: line_colors[0] on an empty row
Panic == [status |-> "panic", lines |-> << >>]

\* render_lines keeping a memory of the earlier calls: once another series
\* or viewport has been drawn, the chart comes out empty
render_lines_remembering(r) ==
    LET visible == visible_candles(r)
        pos     == compute_candle_positions(r.width, Len(visible))
    IN  IF Len(visible) = 0 THEN Ok(<< >>)
        ELSE IF r.height >= 1 /\ r.width = 0 THEN Panic
        ELSE IF drawn.status = "first" /\ drawn.other THEN Ok(<< >>)
        ELSE Ok(CandleRows(r, visible, pos) \o render_x_axis(r, visible, pos))

render_lines(r) ==
    LET visible == visible_candles(r)
        pos     == compute_candle_positions(r.width, Len(visible))
    IN  IF Len(visible) = 0 THEN Ok(<< >>)
        ELSE IF r.height >= 1 /\ r.width = 0 THEN Panic
        ELSE Ok(CandleRows(r, visible, pos) \o render_x_axis(r, visible, pos))

----------------------------------------------------------------------------
(* render_candlestick_chart and its placeholders.  A widget is recorded as  *)
(* [widget, area, ...]; accented letters and symbols of the messages are    *)
(* written in ASCII; a text content is a sequence of string pieces.         *)

\* app.watchlist.get(app.selected_index) as the chart reads it: None, or
\* Some(item) with the item's symbol and whether item.data is None or Some
\* (the data themselves are candles and interval)
NoItem == << >>
Item(symbol, data) == << [symbol |-> symbol, data |-> data] >>
ItemWithoutData == Item("AAPL", "None")
ItemWithData    == Item("AAPL", "Some")

RED == "red"
YELLOW == "yellow"

\* Line::from(""): one unstyled empty span
EmptyLine == << SpanRaw(<< >>) >>

render_no_data(a, message) ==
    [widget |-> "no_data",
     area   |-> a,
     border |-> RED,
     title  |-> " ! Erreur ",
     text   |-> << EmptyLine,
                   << SpanStyled(message, RED) >>,
                   EmptyLine,
                   << SpanStyled(<< "[ESC] Retour" >>, GRAY) >> >>]

render_too_narrow(a) ==
    [widget |-> "too_narrow",
     area   |-> a,
     border |-> YELLOW,
     title  |-> " ! Terminal trop petit ",
     text   |-> << EmptyLine,
                   << SpanStyled(<< "Terminal trop etroit pour afficher le graphique" >>,
                                 YELLOW) >>,
                   EmptyLine,
                   << SpanStyled(<< "Largeur minimale requise : " >>
                                   \o Digits(MIN_TERMINAL_WIDTH)
                                   \o << " colonnes" >>, GRAY) >>,
                   EmptyLine,
                   << SpanStyled(<< "[ESC] Retour" >>, GRAY) >> >>]

\* Layout: vertical, Length(3) for the header, Min(0) for the chart
Chunks(a) ==
    << Rect(a.width, Min(3, a.height)),
       Rect(a.width, a.height - Min(3, a.height)) >>

\* render_candlestick_chart without the MIN_TERMINAL_WIDTH test
render_candlestick_chart_ungated(it, cs, i, a) ==
    IF it = NoItem
    THEN render_no_data(a, << "Aucun ticker selectionne" >>)
    ELSE IF it[1].data = "None"
    THEN render_no_data(a, << "Pas de donnees pour ", it[1].symbol >>)
    ELSE IF Len(cs) = 0
    THEN render_no_data(a, << "Pas de donnees a afficher" >>)
    ELSE [widget |-> "chart",
          header |-> Chunks(a)[1],
          area   |-> Chunks(a)[2],
          lines  |-> render_lines(new(cs, i, Chunks(a)[2]))]

\* what render_candlestick_chart draws for the selected item it, whose data
\* (when present) are the candles cs of granularity i, on the frame area a;
\* the header widget is recorded by its a only
render_candlestick_chart(it, cs, i, a) ==
    IF it = NoItem
    THEN render_no_data(a, << "Aucun ticker selectionne" >>)
    ELSE IF it[1].data = "None"
    THEN render_no_data(a, << "Pas de donnees pour ", it[1].symbol >>)
    ELSE IF Len(cs) = 0
    THEN render_no_data(a, << "Pas de donnees a afficher" >>)
    ELSE IF a.width < MIN_TERMINAL_WIDTH
    THEN render_too_narrow(a)
    ELSE [widget |-> "chart",
          header |-> Chunks(a)[1],
          area   |-> Chunks(a)[2],
          lines  |-> render_lines(new(cs, i, Chunks(a)[2]))]

----------------------------------------------------------------------------
(* Candle series as the data client builds them (src/src/api/yahoo.rs):    *)
(* one candle per time bucket, DateTime::from_timestamp of a Unix time     *)

CivilFromDays(z0) ==
    LET z   == z0 + 719468
        era == z \div 146097
        doe == z - era * 146097
        yoe == (doe - doe \div 1460 + doe \div 36524 - doe \div 146096) \div 365
        doy == doe - (365 * yoe + yoe \div 4 - yoe \div 100)
        mp  == (5 * doy + 2) \div 153
        d   == doy - (153 * mp + 2) \div 5 + 1
        m   == IF mp < 10 THEN mp + 3 ELSE mp - 9
        y   == yoe + era * 400 + (IF m <= 2 THEN 1 ELSE 0)
    IN  << y, m, d >>

from_timestamp(secs) ==
    LET date == CivilFromDays(secs \div 86400)
        sod  == secs % 86400
    IN  Timestamp(date[1], date[2], date[3], sod \div 3600, (sod % 3600) \div 60)

IntervalSeconds(i) ==
    CASE i = "M5"  -> 5 * 60
      [] i = "M15" -> 15 * 60
      [] i = "M30" -> 30 * 60
      [] i = "H1"  -> 60 * 60
      [] i = "H4"  -> 4 * 60 * 60
      [] i = "D1"  -> 24 * 60 * 60
      [] i = "W1"  -> 7 * 24 * 60 * 60

\* first bucket of every series: 2024-12-31 23:00 UTC
FirstBucket == DaysFromCivil(2024, 12, 31) * 86400 + 23 * 3600

\* the candle of bucket number n (0-based) with the prices q = <<o, h, l, c>>
NextCandle(i, n, q) ==
    OHLC(from_timestamp(FirstBucket + n * IntervalSeconds(i)),
         q[1], q[2], q[3], q[4])

\* the series whose k-th candle has the prices quotes[k]
Series(i, quotes) ==
    [k \in 1..Len(quotes) |-> NextCandle(i, k - 1, quotes[k])]

----------------------------------------------------------------------------
(* Inputs of the draw cycle *)

\* <<open, high, low, close>> with low <= min(open, close), max(open, close) <= high
FlatQuote     == << 100, 100, 100, 100 >>
BullishQuote  == << 100, 110, 95, 105 >>
BearishQuote  == << 105, 110, 95, 100 >>
LowQuote      == << 1, 3, 0, 2 >>
TransitionQuote == << 3, 8, 0, 6 >>
SpikeQuote    == << 200, 400, 150, 300 >>

Quotes == { FlatQuote, BullishQuote, BearishQuote, LowQuote, TransitionQuote }

AreaWidths  == { 8, 20, 80 }
AreaHeights == { 5, 10, 11, 26 }

NoLines == [status |-> "none", lines |-> << >>]

----------------------------------------------------------------------------
(* Timeframes and the interval cycle (src/src/models/ohlc.rs)              *)

\* Timeframe::to_days
to_days(t) ==
    CASE t = "OneDay"      -> 1
      [] t = "ThreeDay"    -> 3
      [] t = "FiveDay"     -> 5
      [] t = "OneWeek"     -> 7
      [] t = "TwoWeeks"    -> 14
      [] t = "OneMonth"    -> 30
      [] t = "TwoMonths"   -> 60
      [] t = "ThreeMonths" -> 90
      [] t = "SixMonths"   -> 180
      [] t = "OneYear"     -> 365
      [] t = "TwoYears"    -> 730
      [] t = "FiveYears"   -> 1825

\* Interval::default_timeframe
default_timeframe(i) ==
    CASE i = "M5"  -> "OneWeek"
      [] i = "M15" -> "TwoWeeks"
      [] i = "M30" -> "OneMonth"
      [] i = "H1"  -> "SixMonths"
      [] i = "H4"  -> "OneYear"
      [] i = "D1"  -> "TwoYears"
      [] i = "W1"  -> "FiveYears"

\* Interval::default()
Interval_default == "M30"

\* a cycle that leaves H1 out
next_skipping_H1(i) ==
    CASE i = "M5"  -> "M15"
      [] i = "M15" -> "M30"
      [] i = "M30" -> "H4"
      [] i = "H1"  -> "H4"
      [] i = "H4"  -> "D1"
      [] i = "D1"  -> "W1"
      [] i = "W1"  -> "M5"

\* Interval::next
next(i) ==
    CASE i = "M5"  -> "M15"
      [] i = "M15" -> "M30"
      [] i = "M30" -> "H1"
      [] i = "H1"  -> "H4"
      [] i = "H4"  -> "D1"
      [] i = "D1"  -> "W1"
      [] i = "W1"  -> "M5"

\* Interval::previous
previous(i) ==
    CASE i = "M5"  -> "W1"
      [] i = "M15" -> "M5"
      [] i = "M30" -> "M15"
      [] i = "H1"  -> "M30"
      [] i = "H4"  -> "H1"
      [] i = "D1"  -> "H4"
      [] i = "W1"  -> "D1"

\* OHLCData::new; the candles play no part in what follows and are left out
OHLCData_new(symbol, i, timeframe) ==
    [symbol |-> symbol, interval |-> i, timeframe |-> timeframe]

\* OHLCData::with_interval
with_interval(symbol, i) ==
    LET timeframe == default_timeframe(i)
    IN  OHLCData_new(symbol, i, timeframe)

\* fetch_ticker_data: the timeframe requested from the provider is the
\* interval's default; the network decides between Ok and Err
fetch_ticker_data(symbol, i, ok) ==
    LET timeframe == default_timeframe(i)
    IN  IF ok THEN [status |-> "ok", data |-> OHLCData_new(symbol, i, timeframe)]
        ELSE [status |-> "err"]

----------------------------------------------------------------------------
(* The application state (src/src/app.rs)                                  *)

\* WatchlistItem::new / WatchlistItem::with_data
WatchlistItem_new(symbol, name) == [symbol |-> symbol, name |-> name, data |-> << >>]
with_data(symbol, name, data) == [symbol |-> symbol, name |-> name, data |-> << data >>]

\* App::with_watchlist
with_watchlist(watchlist) ==
    [running |-> TRUE,
     watchlist |-> watchlist,
     selected_index |-> 0,
     current_screen |-> "Dashboard",
     current_interval |-> Interval_default,
     confirm_quit |-> FALSE,
     is_loading |-> FALSE,
     loading_message |-> << >>,
     input_buffer |-> << >>,
     input_prompt |-> << >>,
     confirm_delete |-> FALSE]

\* App::new
App_new == with_watchlist(<< >>)

quit(ap) == [ap EXCEPT !.running = FALSE]

navigate_up(ap) == [ap EXCEPT !.selected_index = SaturatingSub(ap.selected_index, 1)]

\* a navigate_down that does not stop at the last item
navigate_down_unbounded(ap) == [ap EXCEPT !.selected_index = ap.selected_index + 1]

navigate_down(ap) ==
    LET max_index == SaturatingSub(Len(ap.watchlist), 1)
    IN  [ap EXCEPT !.selected_index = Min(ap.selected_index + 1, max_index)]

show_chart(ap) == [ap EXCEPT !.current_screen = "ChartView"]
show_dashboard(ap) == [ap EXCEPT !.current_screen = "Dashboard"]
is_on_dashboard(ap) == ap.current_screen = "Dashboard"
is_on_chart(ap) == ap.current_screen = "ChartView"

next_interval(ap) == [ap EXCEPT !.current_interval = next(ap.current_interval)]
previous_interval(ap) == [ap EXCEPT !.current_interval = previous(ap.current_interval)]

request_quit(ap) == [ap EXCEPT !.confirm_quit = TRUE]
cancel_quit(ap) == [ap EXCEPT !.confirm_quit = FALSE]

start_loading(ap, message) == [ap EXCEPT !.is_loading = TRUE, !.loading_message = message]
\* stop_loading that leaves the message in place
stop_loading_keeping_message(ap) ==
    [ap EXCEPT !.is_loading = FALSE]

stop_loading(ap) == [ap EXCEPT !.is_loading = FALSE, !.loading_message = << >>]

start_input(ap, prompt) ==
    [ap EXCEPT !.current_screen = "InputMode", !.input_buffer = << >>, !.input_prompt = prompt]

\* a cancel_input that keeps what was typed
cancel_input_keeping(ap) ==
    [ap EXCEPT !.current_screen = "Dashboard", !.input_prompt = << >>]

cancel_input(ap) ==
    [ap EXCEPT !.current_screen = "Dashboard", !.input_buffer = << >>, !.input_prompt = << >>]

\* submit_input: the returned value and the App it leaves
submit_input(ap) ==
    [value |-> ap.input_buffer,
     app |-> [ap EXCEPT !.current_screen = "Dashboard",
                        !.input_buffer = << >>, !.input_prompt = << >>]]

append_char(ap, c) == [ap EXCEPT !.input_buffer = Append(ap.input_buffer, c)]

\* String::pop on an empty string does nothing
backspace(ap) ==
    [ap EXCEPT !.input_buffer =
        IF ap.input_buffer = << >> THEN << >>
        ELSE SubSeq(ap.input_buffer, 1, Len(ap.input_buffer) - 1)]

is_in_input_mode(ap) == ap.current_screen = "InputMode"

request_delete(ap) == [ap EXCEPT !.confirm_delete = TRUE]
cancel_delete(ap) == [ap EXCEPT !.confirm_delete = FALSE]

\* Vec::remove(index)
Remove(s, index) == SubSeq(s, 1, index) \o SubSeq(s, index + 2, Len(s))

\* a delete_selected that leaves selected_index where it was
delete_selected_unadjusted(ap) ==
    IF ap.selected_index < Len(ap.watchlist)
    THEN [ap EXCEPT !.watchlist = Remove(ap.watchlist, ap.selected_index),
                    !.confirm_delete = FALSE]
    ELSE [ap EXCEPT !.confirm_delete = FALSE]

\* App::delete_selected (selected_index counts from 0)
delete_selected(ap) ==
    IF ap.selected_index < Len(ap.watchlist)
    THEN LET removed == Remove(ap.watchlist, ap.selected_index)
         IN  [ap EXCEPT !.watchlist = removed,
                        !.selected_index =
                            IF ap.selected_index >= Len(removed) /\ ap.selected_index > 0
                            THEN ap.selected_index - 1 ELSE ap.selected_index,
                        !.confirm_delete = FALSE]
    ELSE [ap EXCEPT !.confirm_delete = FALSE]

----------------------------------------------------------------------------
(* Key events (src/src/ui/events.rs) and their handler (src/src/main.rs)   *)

\* KeyCode::Char(c) is the one-char string c; the other key codes are named
Tick == "Tick"
\* the keys of the watchlist and of the input line
Keys == { "q", "d", "a", " ", "Up", "Down", "Enter", "Esc", "Backspace" }
\* the keys of the chart view
ChartKeys == { "q", "l", "h", " ", "Enter", "Esc" }

is_quit_event(e) == e \in { "q", "Q" }
is_escape_event(e) == e = "Esc"
is_space_event(e) == e = " "
is_enter_event(e) == e = "Enter"
is_up_event(e) == e \in { "Up", "k", "K" }
is_down_event(e) == e \in { "Down", "j", "J" }
is_next_interval_event(e) == e = "l"
is_previous_interval_event(e) == e = "h"
is_add_event(e) == e \in { "a", "A" }
is_delete_event(e) == e \in { "d", "D" }
is_backspace_event(e) == e = "Backspace"

\* Char(c) with c alphanumeric (on the chars of the model), '-' or '.'
is_ticker_char_event(e) ==
    LET is_alphanumeric(c) == c \in { "q", "d", "a", "l", "h", "Q", "D", "A", "L", "H" }
    IN  is_alphanumeric(e) \/ e = "-" \/ e = "."

\* str::to_uppercase, char by char
to_uppercase(s) ==
    LET ToUpper(c) == CASE c = "q" -> "Q"
                        [] c = "d" -> "D"
                        [] c = "a" -> "A"
                        [] c = "l" -> "L"
                        [] c = "h" -> "H"
                        [] OTHER -> c
    IN  [k \in 1..Len(s) |-> ToUpper(s[k])]

\* str::trim: the white space at both ends goes
RECURSIVE trim(_)
trim(s) ==
    IF s = << >> THEN s
    ELSE IF Head(s) = " " THEN trim(Tail(s))
    ELSE IF s[Len(s)] = " " THEN trim(SubSeq(s, 1, Len(s) - 1))
    ELSE s

AddTicker(symbol) == [command |-> "AddTicker", symbol |-> symbol]
ReloadTickerData(symbol, i, index) ==
    [command |-> "ReloadTickerData", symbol |-> symbol, interval |-> i, index |-> index]

\* what the 'l' and 'h' arms send once the interval has moved
SendReload(ap) ==
    IF ap.selected_index < Len(ap.watchlist)
    THEN << ReloadTickerData(ap.watchlist[ap.selected_index + 1].symbol,
                             ap.current_interval, ap.selected_index) >>
    ELSE << >>

\* one arm's outcome: the App it leaves, what it sent on command_tx and the
\* App methods it called
Handled(ap, sent, called) == [app |-> ap, sent |-> sent, called |-> called]

\* handle_event: the first arm whose guard holds
handle_event(ap, event) ==
    IF event = Tick THEN Handled(ap, << >>, << >>)
    ELSE IF is_quit_event(event)
    THEN IF ap.confirm_quit
         THEN Handled(quit(ap), << >>, << "quit" >>)
         ELSE Handled(request_quit(ap), << >>, << "request_quit" >>)
    ELSE IF is_delete_event(event) /\ is_on_dashboard(ap)
    THEN IF ap.watchlist # << >>
         THEN IF ap.confirm_delete
              THEN Handled(delete_selected(ap), << >>, << "delete_selected" >>)
              ELSE Handled(request_delete(ap), << >>, << "request_delete" >>)
         ELSE Handled(ap, << >>, << >>)
    ELSE IF is_add_event(event) /\ is_on_dashboard(ap)
    THEN Handled(start_input(ap, "Add ticker: "), << >>, << "start_input" >>)
    ELSE IF is_up_event(event) /\ is_on_dashboard(ap)
    THEN Handled(navigate_up(cancel_delete(cancel_quit(ap))), << >>,
                 << "cancel_quit", "cancel_delete", "navigate_up" >>)
    ELSE IF is_down_event(event) /\ is_on_dashboard(ap)
    THEN Handled(navigate_down(cancel_delete(cancel_quit(ap))), << >>,
                 << "cancel_quit", "cancel_delete", "navigate_down" >>)
    ELSE IF is_enter_event(event) /\ is_on_dashboard(ap)
    THEN Handled(show_chart(cancel_delete(cancel_quit(ap))), << >>,
                 << "cancel_quit", "cancel_delete", "show_chart" >>)
    ELSE IF (is_escape_event(event) \/ is_space_event(event)) /\ is_on_chart(ap)
    THEN Handled(show_dashboard(cancel_quit(ap)), << >>,
                 << "cancel_quit", "show_dashboard" >>)
    ELSE IF is_escape_event(event) /\ is_in_input_mode(ap)
    THEN Handled(cancel_input(ap), << >>, << "cancel_input" >>)
    ELSE IF is_enter_event(event) /\ is_in_input_mode(ap)
    THEN LET submitted == submit_input(ap)
             symbol == to_uppercase(trim(submitted.value))
         IN  Handled(submitted.app,
                     IF symbol # << >> THEN << AddTicker(symbol) >> ELSE << >>,
                     << "submit_input" >>)
    ELSE IF is_backspace_event(event) /\ is_in_input_mode(ap)
    THEN Handled(backspace(ap), << >>, << "backspace" >>)
    ELSE IF is_ticker_char_event(event) /\ is_in_input_mode(ap)
    THEN Handled(append_char(ap, event), << >>, << "append_char" >>)
    ELSE IF is_next_interval_event(event) /\ is_on_chart(ap)
    THEN LET moved == next_interval(cancel_quit(ap))
         IN  Handled(moved, SendReload(moved), << "cancel_quit", "next_interval" >>)
    ELSE IF is_previous_interval_event(event) /\ is_on_chart(ap)
    THEN LET moved == previous_interval(cancel_quit(ap))
         IN  Handled(moved, SendReload(moved), << "cancel_quit", "previous_interval" >>)
    ELSE Handled(cancel_delete(cancel_quit(ap)), << >>, << "cancel_quit", "cancel_delete" >>)

\* the worker thread on one command: the loading indicator goes on, the
\* fetch runs, the result is sent, the indicator goes off
TickerDataLoaded(index, data) == [result |-> "TickerDataLoaded", index |-> index, data |-> data]
LoadError(index, symbol) == [result |-> "LoadError", index |-> index, symbol |-> symbol]
TickerAdded(symbol, name, data) ==
    [result |-> "TickerAdded", symbol |-> symbol, name |-> name, data |-> data]
AddError(symbol) == [result |-> "AddError", symbol |-> symbol]

worker_result(command, ok) ==
    IF command.command = "ReloadTickerData"
    THEN LET fetched == fetch_ticker_data(command.symbol, command.interval, ok)
         IN  IF fetched.status = "ok"
             THEN TickerDataLoaded(command.index, fetched.data)
             ELSE LoadError(command.index, command.symbol)
    ELSE LET fetched == fetch_ticker_data(command.symbol, Interval_default, ok)
         IN  IF fetched.status = "ok"
             THEN TickerAdded(command.symbol, command.symbol, fetched.data)
             ELSE AddError(command.symbol)

\* run, step 0: one result of the worker applied to the App
apply_result(ap, r) ==
    IF r.result = "TickerDataLoaded"
    THEN IF r.index < Len(ap.watchlist)
         THEN [ap EXCEPT !.watchlist[r.index + 1].data = << r.data >>]
         ELSE ap
    ELSE IF r.result = "TickerAdded"
    THEN [ap EXCEPT !.watchlist = Append(ap.watchlist, with_data(r.symbol, r.name, r.data))]
    ELSE ap

\* trace of the key presses, kept for the properties: the last key
\* pressed, and the calls of next_interval minus those of previous_interval
\* modulo the length of the cycle
NoTrace == [key |-> "none", shift |-> 0]

Record(h, event, called) ==
    LET Count(method) == Cardinality({ k \in 1..Len(called) : called[k] = method })
    IN  IF event = Tick THEN h
        ELSE [key |-> event,
              shift |-> (h.shift + Count("next_interval")
                                 + 6 * Count("previous_interval")) % 7]

\* the threads before the first step of run and of the worker's loop
Unlocked == "unlocked"

NoDraw == [status |-> "none"]

\* what the properties need of the past: the key presses, the commands sent
\* on command_tx in order, how many the worker received, how many results
\* were sent and taken, whether a fetch failed, whether an item was deleted
NoLog == [presses |-> 0, sent |-> << >>, received |-> 0, answered |-> 0,
          taken |-> 0, failed |-> FALSE, deleted |-> FALSE]

\* pc is the block of the loop body the thread is in and lock tells whether
\* the thread is still in the app.lock() call that opens the block;
\* worker.sent counts the result_tx.send calls for the command in hand,
\* ui.taken the results that try_recv returned in this iteration
LoopIdle ==
    /\ mutex = Unlocked
    /\ worker = [pc |-> "recv", lock |-> FALSE, command |-> << >>, result |-> << >>,
                 sent |-> 0]
    /\ ui = [pc |-> "is_running", lock |-> TRUE, result |-> << >>, event |-> << >>,
             taken |-> 0]
    /\ log = NoLog
    /\ drawn = NoDraw

AppIdle ==
    /\ app = App_new
    /\ commands = << >>
    /\ results = << >>
    /\ trace = NoTrace
    /\ LoopIdle

----------------------------------------------------------------------------
(* The draw cycle: data and viewport change between draws; a draw builds   *)
(* a renderer, renders, and drops both                                     *)

\* nothing drawn yet
NoFrame == [widget |-> "none"]

FrameIdle ==
    /\ item = ItemWithData
    /\ frame = NoFrame

PlannerIdle ==
    /\ chart_width = 0
    /\ num_candles = 0
    /\ positions = << >>

Init ==
    /\ AppIdle
    /\ candles = << >>
    /\ interval = "M30"
    /\ area = Rect(80, 26)
    /\ renderer = NoRenderer
    /\ lines = NoLines
    /\ pc = "idle"
    /\ PlannerIdle
    /\ FrameIdle

\* OHLCData::new: a fetch for granularity i starts an empty series
Reload ==
    /\ pc = "idle"
    /\ \E i \in Interval :
          /\ interval' = i
          /\ candles' = << >>
    /\ UNCHANGED << appvars, loopvars, drawn, area, renderer, lines, pc, chart_width, num_candles, positions, item, frame >>

\* OHLCData::add_candle: the fetch appends the candle of the next bucket
AddCandle ==
    /\ pc = "idle"
    /\ Len(candles) < MaxCandles
    /\ \E q \in Quotes :
          candles' = Append(candles, NextCandle(interval, Len(candles), q))
    /\ UNCHANGED << appvars, loopvars, drawn, interval, area, renderer, lines, pc,
                    chart_width, num_candles, positions, item, frame >>

\* the terminal is resized
Resize ==
    /\ pc = "idle"
    /\ \E w \in AreaWidths, h \in AreaHeights : area' = Rect(w, h)
    /\ UNCHANGED << appvars, loopvars, drawn, candles, interval, renderer, lines, pc,
                    chart_width, num_candles, positions, item, frame >>

New ==
    /\ pc = "idle"
    /\ renderer' = << new(candles, interval, area) >>
    /\ pc' = "constructed"
    /\ UNCHANGED << appvars, loopvars, drawn, candles, interval, area, lines,
                    chart_width, num_candles, positions, item, frame >>

RenderLines ==
    /\ pc = "constructed"
    /\ lines' = render_lines(renderer[1])
    /\ pc' = "rendered"
    /\ UNCHANGED << appvars, loopvars, drawn, candles, interval, area, renderer,
                    chart_width, num_candles, positions, item, frame >>

EndDraw ==
    /\ pc = "rendered"
    /\ renderer' = NoRenderer
    /\ lines' = NoLines
    /\ pc' = "idle"
    /\ UNCHANGED << appvars, loopvars, drawn, candles, interval, area, chart_width, num_candles, positions, item, frame >>

Next == Reload \/ AddCandle \/ Resize \/ New \/ RenderLines \/ EndDraw

Spec == Init /\ [][Next]_vars

----------------------------------------------------------------------------
(* Long series: the draw cycle on series around MAX_VISIBLE_CANDLES long,  *)
(* whose oldest candles lie before the visible window                      *)

\* candles that may lie before the window: off-screen extremes
HistoryQuotes == { LowQuote, SpikeQuote, FlatQuote }

\* the recent candles repeat three shapes
RecentQuote(k) ==
    CASE k % 3 = 0 -> BullishQuote
      [] k % 3 = 1 -> BearishQuote
      [] k % 3 = 2 -> TransitionQuote

RECURSIVE SeqsUpTo(_, _)
SeqsUpTo(S, n) ==
    IF n = 0 THEN { << >> }
    ELSE LET shorter == SeqsUpTo(S, n - 1)
         IN  shorter \cup { Append(q, x) :
                                q \in { t \in shorter : Len(t) = n - 1 }, x \in S }

WindowAreas == { Rect(20, 9), Rect(90, 8) }

InitWindow ==
    /\ AppIdle
    /\ \E history \in SeqsUpTo(HistoryQuotes, MaxHistory) :
          candles = Series("D1", history \o
                        [k \in 1..(MAX_VISIBLE_CANDLES - 1) |-> RecentQuote(k)])
    /\ interval = "D1"
    /\ area \in WindowAreas
    /\ renderer = NoRenderer
    /\ lines = NoLines
    /\ pc = "idle"
    /\ PlannerIdle
    /\ FrameIdle

\* OHLCData::add_candle: the fetch appends the candle of the next bucket, and
\* the oldest candles slide out of the visible window
AppendRecent ==
    /\ pc = "idle"
    /\ Len(candles) < MAX_VISIBLE_CANDLES + MaxHistory
    /\ \E q \in { BullishQuote, BearishQuote } :
          candles' = Append(candles, NextCandle(interval, Len(candles), q))
    /\ UNCHANGED << appvars, loopvars, drawn, interval, area, renderer, lines, pc,
                    chart_width, num_candles, positions, item, frame >>

NextWindow == AppendRecent \/ New \/ RenderLines \/ EndDraw

SpecWindow == InitWindow /\ [][NextWindow]_vars

----------------------------------------------------------------------------
(* Time axis: the draw cycle on series long enough for labels to compete,  *)
(* for every granularity, on narrow and wide charts                        *)

\* series lengths: one candle, two candles, 37 (three days of H1, two round
\* even hours of M5) and the longest
AxisLengths == { 1, 2, 37, MaxAxisCandles }

\* chart widths 2, 12, 68 (narrow) and 80 (wide); one candle row
AxisAreas == { Rect(10, 7), Rect(20, 7), Rect(80, 7), Rect(92, 7) }

InitAxis ==
    /\ AppIdle
    /\ interval \in Interval
    /\ \E n \in AxisLengths :
          candles = Series(interval, [k \in 1..n |-> RecentQuote(k)])
    /\ area \in AxisAreas
    /\ renderer = NoRenderer
    /\ lines = NoLines
    /\ pc = "idle"
    /\ PlannerIdle
    /\ FrameIdle

NextAxis == New \/ RenderLines \/ EndDraw

SpecAxis == InitAxis /\ [][NextAxis]_vars

----------------------------------------------------------------------------
(* Chart screen: render_candlestick_chart on the whole frame, for every     *)
(* selection state and for terminals below and above the minimum width      *)

Items == { NoItem, ItemWithoutData, ItemWithData }

\* terminal sizes: widths around MIN_TERMINAL_WIDTH
FrameAreas == { Rect(w, h) : w \in { 20, 79, 80, 92 }, h \in { 2, 12 } }

InitChart ==
    /\ AppIdle
    /\ candles = << >>
    /\ interval = "M30"
    /\ area = Rect(80, 12)
    /\ renderer = NoRenderer
    /\ lines = NoLines
    /\ pc = "idle"
    /\ PlannerIdle
    /\ item \in Items
    /\ frame = NoFrame

\* the terminal is resized
ResizeFrame ==
    /\ pc = "idle"
    /\ \E a \in FrameAreas : area' = a
    /\ UNCHANGED << appvars, loopvars, drawn, candles, interval, renderer, lines, pc,
                    chart_width, num_candles, positions, item, frame >>

\* one terminal.draw on the chart screen, with area = frame.size()
RenderCandlestickChart ==
    /\ pc = "idle"
    /\ frame' = render_candlestick_chart(item, candles, interval, area)
    /\ pc' = "drawn"
    /\ UNCHANGED << appvars, loopvars, drawn, candles, interval, area, renderer, lines,
                    chart_width, num_candles, positions, item >>

\* the next draw starts from an empty frame
EndFrame ==
    /\ pc = "drawn"
    /\ frame' = NoFrame
    /\ pc' = "idle"
    /\ UNCHANGED << appvars, loopvars, drawn, candles, interval, area, renderer, lines,
                    chart_width, num_candles, positions, item >>

NextChart == Reload \/ AddCandle \/ ResizeFrame \/ RenderCandlestickChart \/ EndFrame

SpecChart == InitChart /\ [][NextChart]_vars


----------------------------------------------------------------------------
(* The planner alone: compute_candle_positions over a range of arguments   *)

RendererIdle ==
    /\ candles = << >>
    /\ interval = "M30"
    /\ area = Rect(80, 26)
    /\ renderer = NoRenderer
    /\ lines = NoLines

InitPositions ==
    /\ AppIdle
    /\ RendererIdle
    /\ FrameIdle
    /\ pc = "plan"
    /\ \/ /\ chart_width \in 0..MaxChartWidth
          /\ num_candles \in 0..MaxNumCandles
       \/ /\ chart_width = 100
          /\ num_candles = 500
    /\ positions = << >>

ComputePositions ==
    /\ pc = "plan"
    /\ positions' = compute_candle_positions(chart_width, num_candles)
    /\ pc' = "planned"
    /\ UNCHANGED << appvars, loopvars, drawn, candles, interval, area, renderer, lines,
                    chart_width, num_candles, item, frame >>

NextPositions == ComputePositions

SpecPositions == InitPositions /\ [][NextPositions]_vars

----------------------------------------------------------------------------
(* Repeated draws: the draw cycle over a few series and viewports; the     *)
(* first draw is kept in drawn, to compare the later draws with             *)

ReplayIntervals == { "M30", "D1" }
ReplayQuotes    == { BullishQuote, BearishQuote }
ReplayAreas     == { Rect(20, 10), Rect(80, 26) }

\* the series of at most MaxCandles candles
ReplaySeries ==
    UNION { [1..n -> ReplayQuotes] : n \in 0..MaxCandles }

\* the draw at hand has the inputs of the first draw
SameInputs ==
    /\ drawn.status = "first"
    /\ drawn.candles = candles
    /\ drawn.interval = interval
    /\ drawn.area = area

\* another series is loaded and the terminal resized between two draws
ChangeInputs ==
    /\ pc = "idle"
    /\ \E i \in ReplayIntervals, quotes \in ReplaySeries, a \in ReplayAreas :
          /\ interval' = i
          /\ candles' = Series(i, quotes)
          /\ area' = a
    /\ UNCHANGED << appvars, loopvars, drawn, renderer, lines, pc,
                    chart_width, num_candles, positions, item, frame >>

\* render_lines, the first call being kept with its inputs
RenderLinesAgain ==
    /\ pc = "constructed"
    /\ lines' = render_lines(renderer[1])
    /\ pc' = "rendered"
    /\ drawn' = IF drawn.status = "none"
                THEN [status |-> "first", candles |-> candles, interval |-> interval,
                      area |-> area, lines |-> lines', other |-> FALSE]
                ELSE IF SameInputs THEN drawn
                ELSE [drawn EXCEPT !.other = TRUE]
    /\ UNCHANGED << appvars, loopvars, candles, interval, area, renderer,
                    chart_width, num_candles, positions, item, frame >>

NextReplay == ChangeInputs \/ New \/ RenderLinesAgain \/ EndDraw

SpecReplay == Init /\ [][NextReplay]_vars

----------------------------------------------------------------------------
(* The event loop: run applies the worker's results and hands the key      *)
(* events to handle_event, the worker thread serves the commands           *)

\* the tickers of load_watchlist_data
Tickers ==
    << [symbol |-> << "A", "A", "P", "L" >>, name |-> << "Apple Inc." >>],
       [symbol |-> << "T", "S", "L", "A" >>, name |-> << "Tesla" >>],
       [symbol |-> << "B", "T", "C", "-", "U", "S", "D" >>, name |-> << "Bitcoin USD" >>] >>

\* load_watchlist_data: an item with data when its fetch succeeds, without otherwise
load_watchlist_data(tickers, oks) ==
    [k \in 1..Len(tickers) |->
        LET fetched == fetch_ticker_data(tickers[k].symbol, Interval_default, oks[k])
        IN  IF fetched.status = "ok"
            THEN with_data(tickers[k].symbol, tickers[k].name, fetched.data)
            ELSE WatchlistItem_new(tickers[k].symbol, tickers[k].name)]

\* the AddTicker commands and TickerAdded results still on their way
PendingAdds ==
    Cardinality({ k \in 1..Len(commands) : commands[k].command = "AddTicker" })
    + Cardinality({ k \in 1..Len(results) : results[k].result = "TickerAdded" })

InitApp ==
    /\ RendererIdle
    /\ FrameIdle
    /\ PlannerIdle
    /\ pc = "idle"
    /\ \E n \in 0..Min(MaxWatchlist, Len(Tickers)) :
           \E oks \in [1..n -> BOOLEAN] :
               app = with_watchlist(load_watchlist_data(SubSeq(Tickers, 1, n), oks))
    /\ commands = << >>
    /\ results = << >>
    /\ trace = NoTrace
    /\ LoopIdle

\* run, step 2: handle_event on the event that events.next() returned
Handle(event) ==
    LET handled == handle_event(app, event)
    IN  /\ Len(handled.app.input_buffer) <= MaxInput
        /\ handled.sent # << >> =>
              /\ Len(commands) + Len(results) < MaxInFlight
              /\ handled.sent[1].command = "AddTicker" =>
                    Len(app.watchlist) + PendingAdds < MaxWatchlist
        /\ app' = handled.app
        /\ commands' = commands \o handled.sent
        /\ trace' = Record(trace, event, handled.called)
        /\ UNCHANGED << rendervars, loopvars, results >>

HandleEvent ==
    /\ app.running
    /\ \E event \in Keys \cup { Tick } : Handle(event)

\* the worker thread: command_rx.recv(), the fetch, result_tx.send()
Worker ==
    /\ commands # << >>
    /\ \E ok \in BOOLEAN :
          LET command == Head(commands)
              message == IF command.command = "ReloadTickerData"
                         THEN << "Chargement ", command.symbol, " avec intervalle ",
                                 command.interval, "..." >>
                         ELSE << "Ajout de ", command.symbol, "..." >>
          IN  /\ results' = Append(results, worker_result(command, ok))
              /\ app' = stop_loading(start_loading(app, << message >>))
    /\ commands' = Tail(commands)
    /\ UNCHANGED << rendervars, loopvars, trace >>

\* run, step 0: result_rx.try_recv()
TryRecv ==
    /\ app.running
    /\ results # << >>
    /\ app' = apply_result(app, Head(results))
    /\ results' = Tail(results)
    /\ UNCHANGED << rendervars, loopvars, commands, trace >>

NextApp == HandleEvent \/ Worker \/ TryRecv

SpecApp == InitApp /\ [][NextApp]_vars

\* the chart view: the interval keys and the reloads they ask for
HandleChartEvent ==
    /\ app.running
    /\ \E event \in ChartKeys \cup { Tick } : Handle(event)

NextIntervals == HandleChartEvent \/ Worker \/ TryRecv

SpecIntervals == InitApp /\ [][NextIntervals]_vars



----------------------------------------------------------------------------
(* The two threads step by step: every app.lock() is a step of its own,    *)
(* the block it opens, to the drop of the guard, is the step that follows. *)
(* ui.pc names the block of run's loop body the thread is in, worker.pc    *)
(* the block of the worker's loop body; lock is TRUE while the thread is   *)
(* in the app.lock() call that opens the block.                            *)

MaxPresses == 5
MaxSent == 2

LoopKeys == { "Enter", "l", "Esc", "d", "a", "q" }

\* the parts of run's loop body that begin with app.lock()
UiLocking == { "is_running", "apply", "draw", "handle_event", "tick" }

\* the parts of the worker's loop body that begin with app.lock()
WorkerLocking == { "start_loading", "stop_loading" }

InitLoop ==
    /\ RendererIdle
    /\ FrameIdle
    /\ PlannerIdle
    /\ pc = "idle"
    /\ app = with_watchlist(load_watchlist_data(SubSeq(Tickers, 1, 2), << TRUE, TRUE >>))
    /\ commands = << >>
    /\ results = << >>
    /\ trace = NoTrace
    /\ LoopIdle

\* run: app.lock() returns
UiLock ==
    /\ ui.lock
    /\ mutex = Unlocked
    /\ mutex' = "ui"
    /\ ui' = [ui EXCEPT !.lock = FALSE]
    /\ UNCHANGED << rendervars, appvars, worker, log >>

\* run: is_running read under the lock; run returns when it is false
UiIsRunning ==
    /\ ui.pc = "is_running"
    /\ ~ui.lock
    /\ mutex' = Unlocked
    /\ ui' = [ui EXCEPT !.pc = IF app.running THEN "try_recv" ELSE "returned",
                        !.taken = 0]
    /\ UNCHANGED << rendervars, appvars, worker, log >>

\* run, step 0: result_rx.try_recv(); the error results are only logged
UiTryRecv ==
    /\ ui.pc = "try_recv"
    /\ IF results = << >>
       THEN /\ ui' = [ui EXCEPT !.pc = "draw", !.lock = TRUE]
            /\ UNCHANGED << results, log >>
       ELSE /\ ui' = IF Head(results).result \in { "TickerDataLoaded", "TickerAdded" }
                     THEN [ui EXCEPT !.pc = "apply", !.lock = TRUE,
                                     !.result = << Head(results) >>, !.taken = @ + 1]
                     ELSE [ui EXCEPT !.pc = "draw", !.lock = TRUE, !.taken = @ + 1]
            /\ results' = Tail(results)
            /\ log' = [log EXCEPT !.taken = @ + 1]
    /\ UNCHANGED << rendervars, app, commands, trace, mutex, worker >>

\* run, step 0: the result stored under the lock
UiApply ==
    /\ ui.pc = "apply"
    /\ ~ui.lock
    /\ app' = apply_result(app, ui.result[1])
    /\ mutex' = Unlocked
    /\ ui' = [ui EXCEPT !.pc = "draw", !.lock = TRUE, !.result = << >>]
    /\ UNCHANGED << rendervars, commands, results, trace, worker, log >>

\* run, step 1: terminal.draw, render reads the App under the lock
UiDraw ==
    /\ ui.pc = "draw"
    /\ ~ui.lock
    /\ mutex' = Unlocked
    /\ ui' = [ui EXCEPT !.pc = "events"]
    /\ UNCHANGED << rendervars, appvars, worker, log >>

\* run, step 2: events.next() returns a key press or, after 250 ms, a tick
UiNextEvent ==
    /\ ui.pc = "events"
    /\ \E event \in LoopKeys \cup { Tick } :
          LET handled == handle_event(app, event)
          IN  /\ event # Tick => log.presses < MaxPresses
              /\ Len(handled.app.input_buffer) <= MaxInput
              /\ handled.sent # << >> => Len(log.sent) < MaxSent
              /\ ui' = [ui EXCEPT !.pc = "handle_event", !.lock = TRUE,
                                  !.event = << event >>]
              /\ log' = [log EXCEPT !.presses = IF event = Tick THEN @ ELSE @ + 1]
    /\ UNCHANGED << rendervars, appvars, mutex, worker >>

\* run, step 2: handle_event under the lock
UiHandleEvent ==
    /\ ui.pc = "handle_event"
    /\ ~ui.lock
    /\ LET handled == handle_event(app, ui.event[1])
       IN  /\ app' = handled.app
           /\ commands' = commands \o handled.sent
           /\ trace' = Record(trace, ui.event[1], handled.called)
           /\ log' = [log EXCEPT !.sent = @ \o handled.sent,
                                 !.deleted = @ \/ handled.called = << "delete_selected" >>]
    /\ mutex' = Unlocked
    /\ ui' = [ui EXCEPT !.pc = "tick", !.lock = TRUE, !.event = << >>]
    /\ UNCHANGED << rendervars, results, worker >>

\* run, step 3: app.tick() under the lock
UiTick ==
    /\ ui.pc = "tick"
    /\ ~ui.lock
    /\ mutex' = Unlocked
    /\ ui' = [ui EXCEPT !.pc = "is_running", !.lock = TRUE]
    /\ UNCHANGED << rendervars, appvars, worker, log >>

\* main returns after run: the process ends and the worker thread with it
ProcessExit ==
    /\ ui.pc = "returned"
    /\ ui' = [ui EXCEPT !.pc = "exited"]
    /\ UNCHANGED << rendervars, appvars, mutex, worker, log >>

\* a worker that takes the newest command of the queue
WorkerRecvNewest ==
    /\ ui.pc # "exited"
    /\ worker.pc = "recv"
    /\ commands # << >>
    /\ worker' = [pc |-> "start_loading", lock |-> TRUE,
                  command |-> << commands[Len(commands)] >>, result |-> << >>, sent |-> 0]
    /\ commands' = SubSeq(commands, 1, Len(commands) - 1)
    /\ log' = [log EXCEPT !.received = @ + 1]
    /\ UNCHANGED << rendervars, app, results, trace, mutex, ui >>

\* worker: command_rx.recv() returns the oldest command
WorkerRecv ==
    /\ ui.pc # "exited"
    /\ worker.pc = "recv"
    /\ commands # << >>
    /\ worker' = [pc |-> "start_loading", lock |-> TRUE,
                  command |-> << Head(commands) >>, result |-> << >>, sent |-> 0]
    /\ commands' = Tail(commands)
    /\ log' = [log EXCEPT !.received = @ + 1]
    /\ UNCHANGED << rendervars, app, results, trace, mutex, ui >>

\* worker: app.lock() returns
WorkerLock ==
    /\ ui.pc # "exited"
    /\ worker.lock
    /\ mutex = Unlocked
    /\ mutex' = "worker"
    /\ worker' = [worker EXCEPT !.lock = FALSE]
    /\ UNCHANGED << rendervars, appvars, ui, log >>

\* a worker whose guard outlives the block: the mutex is still held when
\* the fetch begins
WorkerStartLoadingHolding ==
    /\ ui.pc # "exited"
    /\ worker.pc = "start_loading"
    /\ ~worker.lock
    /\ app' = start_loading(app, << << "..." >> >>)
    /\ worker' = [worker EXCEPT !.pc = "fetch"]
    /\ UNCHANGED << rendervars, commands, results, trace, mutex, ui, log >>

\* worker: start_loading under the lock
WorkerStartLoading ==
    /\ ui.pc # "exited"
    /\ worker.pc = "start_loading"
    /\ ~worker.lock
    /\ LET command == worker.command[1]
           message == IF command.command = "ReloadTickerData"
                      THEN << "Chargement ", command.symbol, " avec intervalle ",
                              command.interval, "..." >>
                      ELSE << "Ajout de ", command.symbol, "..." >>
       IN  app' = start_loading(app, << message >>)
    /\ mutex' = Unlocked
    /\ worker' = [worker EXCEPT !.pc = "fetch"]
    /\ UNCHANGED << rendervars, commands, results, trace, ui, log >>

\* worker: runtime.block_on(fetch_ticker_data(..)) returns Ok or Err
WorkerFetch ==
    /\ ui.pc # "exited"
    /\ worker.pc = "fetch"
    /\ \E ok \in BOOLEAN :
          /\ worker' = [worker EXCEPT !.pc = "send",
                                      !.result = << worker_result(worker.command[1], ok) >>]
          /\ log' = [log EXCEPT !.failed = @ \/ ~ok]
    /\ UNCHANGED << rendervars, appvars, mutex, ui >>

\* worker: result_tx.send(..)
WorkerSend ==
    /\ ui.pc # "exited"
    /\ worker.pc = "send"
    /\ results' = Append(results, worker.result[1])
    /\ worker' = [worker EXCEPT !.pc = "stop_loading", !.lock = TRUE, !.sent = @ + 1]
    /\ log' = [log EXCEPT !.answered = @ + 1]
    /\ UNCHANGED << rendervars, app, commands, trace, mutex, ui >>

\* worker: stop_loading under the lock, then back to command_rx.recv()
WorkerStopLoading ==
    /\ ui.pc # "exited"
    /\ worker.pc = "stop_loading"
    /\ ~worker.lock
    /\ app' = stop_loading(app)
    /\ mutex' = Unlocked
    /\ worker' = [worker EXCEPT !.pc = "recv", !.command = << >>, !.result = << >>]
    /\ UNCHANGED << rendervars, commands, results, trace, ui, log >>

NextLoop ==
    \/ UiLock \/ UiIsRunning \/ UiTryRecv \/ UiApply \/ UiDraw
    \/ UiNextEvent \/ UiHandleEvent \/ UiTick \/ ProcessExit
    \/ WorkerRecv \/ WorkerLock \/ WorkerStartLoading \/ WorkerFetch
    \/ WorkerSend \/ WorkerStopLoading

SpecLoop == InitLoop /\ [][NextLoop]_vars

\* Scheduling.  Each thread runs on: a thread that holds the mutex or waits
\* for nothing takes its next step (weak fairness); main returns after run.
\* A thread waiting in app.lock() gets the mutex if it is free again and
\* again (strong fairness): run spends up to 250 ms of every iteration in
\* events.next() without holding it, and the worker's fetch holds nothing.
FairLoop ==
    /\ WF_vars(UiIsRunning) /\ WF_vars(UiTryRecv) /\ WF_vars(UiApply)
    /\ WF_vars(UiDraw) /\ WF_vars(UiNextEvent) /\ WF_vars(UiHandleEvent)
    /\ WF_vars(UiTick) /\ WF_vars(ProcessExit)
    /\ WF_vars(WorkerRecv) /\ WF_vars(WorkerStartLoading) /\ WF_vars(WorkerFetch)
    /\ WF_vars(WorkerSend) /\ WF_vars(WorkerStopLoading)
    /\ SF_vars(UiLock) /\ SF_vars(WorkerLock)

SpecLoopFair == InitLoop /\ [][NextLoop]_vars /\ FairLoop

----------------------------------------------------------------------------
(* PositionPlanner properties (checked under SpecPositions) *)

\* C1: for n > 1 candles in chart_width columns, candle i gets the column
\* round(i * chart_width / n) computed from its index alone and clamped to
\* chart_width - 1; hence the column is within 1 of the ideal
\* i * chart_width / n, and 500 candles in 100 columns start at column 0 and
\* end at column 99.  (c = round(x) is stated as -1/2 < c - x <= 1/2.)
C1_ColumnFromIndex ==
    (pc = "planned" /\ num_candles > 1) =>
        /\ Len(positions) = num_candles
        /\ \A k \in 1..num_candles :
              LET i   == k - 1
                  col == positions[k].column
              IN  /\ \E c \in 0..(chart_width + 1) :
                        /\ 2 * num_candles * c - 2 * i * chart_width > -num_candles
                        /\ 2 * num_candles * c - 2 * i * chart_width <= num_candles
                        /\ col = Min(c, SaturatingSub(chart_width, 1))
                  /\ Abs(num_candles * col - i * chart_width) <= num_candles
        /\ (chart_width = 100 /\ num_candles = 500) =>
              /\ positions[1].column = 0
              /\ positions[500].column = 99

C1_Witness ==
    /\ pc = "planned"
    /\ chart_width = 100
    /\ num_candles = 500
    /\ positions[500].column = 99
    /\ positions[3].column = 0
    /\ positions[4].column = 1

\* C2: the planned columns are non-decreasing in the candle index.
C2_MonotonicPlacement ==
    pc = "planned" =>
        \A i, j \in 1..Len(positions) :
            i < j => positions[i].column <= positions[j].column

C2_Witness ==
    /\ pc = "planned"
    /\ chart_width >= 2
    /\ num_candles > 2 * chart_width
    /\ positions[num_candles].column = chart_width - 1
    /\ positions[1].column = 0

\* C3 as stated: for every chart_width and every n >= 1 every planned column
\* lies in [0, chart_width).
C3_ColumnInsideChart_AnyWidth ==
    (pc = "planned" /\ num_candles >= 1) =>
        \A k \in 1..Len(positions) :
            /\ 0 <= positions[k].column
            /\ positions[k].column < chart_width

\* C3 amended: for every chart_width >= 1 and every n >= 1 every planned
\* column lies in [0, chart_width); with chart_width = 0 the column is 0.
C3_ColumnInsideChart ==
    (pc = "planned" /\ num_candles >= 1) =>
        /\ Len(positions) = num_candles
        /\ \A k \in 1..Len(positions) :
              /\ 0 <= positions[k].column
              /\ chart_width >= 1 => positions[k].column < chart_width
              /\ chart_width = 0 => positions[k].column = 0

\* the rounded position of the last candle reaches chart_width and is clamped
C3_Witness ==
    /\ pc = "planned"
    /\ chart_width >= 1
    /\ num_candles > 1
    /\ 2 * (num_candles - 1) * chart_width + num_candles >= 2 * num_candles * chart_width
    /\ positions[num_candles].column = chart_width - 1


----------------------------------------------------------------------------
(* Reading the rendered output *)

Drawing == pc \in { "constructed", "rendered" }

Rendered == pc = "rendered" /\ lines.status = "ok" /\ Len(lines.lines) > 0

RECURSIVE LineText(_)
LineText(line) ==
    IF Len(line) = 0 THEN << >>
    ELSE line[1].content \o LineText(Tail(line))

\* colour of the idx-th char of a line
RECURSIVE CharColor(_, _)
CharColor(line, idx) ==
    IF idx <= Len(line[1].content) THEN line[1].fg
    ELSE CharColor(Tail(line), idx - Len(line[1].content))

\* the chart area of a line is its last renderer.width chars; what precedes
\* it is the prefix
PrefixLen(line) == Len(LineText(line)) - renderer[1].width

\* char and colour shown in chart column c (0-based) of output line k
Cell(k, c) == LineText(lines.lines[k])[PrefixLen(lines.lines[k]) + c + 1]
CellColor(k, c) == CharColor(lines.lines[k], PrefixLen(lines.lines[k]) + c + 1)

\* output line of chart row y: rows are emitted for y = height down to 1
LineOfRow(y) == renderer[1].height + 1 - y

PlannedColumn(k) ==
    compute_candle_positions(renderer[1].width,
                             Len(visible_candles(renderer[1])))[k].column

----------------------------------------------------------------------------
(* GridRenderer and AxisLabeler share one column table *)

\* C4: in the lines returned by render_lines the text that precedes the
\* chart area has the same length in every candle row and every axis row, so
\* a candle's glyph, its tick mark and its labels share a screen column, for
\* every viewport width.
C4_SharedColumnTable ==
    Rendered =>
        \A a, b \in 1..Len(lines.lines) :
            PrefixLen(lines.lines[a]) = PrefixLen(lines.lines[b])


----------------------------------------------------------------------------
(* GlyphSelector properties *)

Glyphs ==
    { UNICODE_VOID, UNICODE_BODY, UNICODE_HALF_BODY_BOTTOM, UNICODE_HALF_BODY_TOP,
      UNICODE_WICK, UNICODE_TOP, UNICODE_BOTTOM, UNICODE_UPPER_WICK,
      UNICODE_LOWER_WICK }

BodyTopY(r, candle) ==
    price_to_height(r, MarginDenominator * Max(candle.open, candle.close))
BodyBottomY(r, candle) ==
    price_to_height(r, MarginDenominator * Min(candle.open, candle.close))
HighY(r, candle) == price_to_height(r, MarginDenominator * candle.high)
LowY(r, candle) == price_to_height(r, MarginDenominator * candle.low)

\* C5 as stated: for every valid candle and every row y, render_candle
\* selects one of the nine glyphs, and every row of the body zone
\* ceil(body_bottom_y) <= y <= floor(body_top_y) yields the full-body glyph.
C5_BodyZoneFullBody_Closed ==
    Drawing =>
        \A k \in 1..Len(visible_candles(renderer[1])) :
            \A y \in 0..(renderer[1].height + 1) :
                LET r      == renderer[1]
                    candle == visible_candles(r)[k]
                IN  /\ render_candle(r, candle, y) \in Glyphs
                    /\ (Ceil(BodyBottomY(r, candle)) <= y
                            /\ y <= Floor(BodyTopY(r, candle)))
                        => render_candle(r, candle, y) = UNICODE_BODY

\* C5 amended: render_candle selects one of the nine glyphs; every row with
\* ceil(body_bottom_y) <= y < floor(body_top_y) yields the full-body glyph;
\* the row y = floor(body_top_y) is decided by the upper-wick zone and
\* yields the full-body glyph exactly when body_top_y - y > 0.75.
C5_BodyZoneFullBody ==
    Drawing =>
        \A k \in 1..Len(visible_candles(renderer[1])) :
            \A y \in 0..(renderer[1].height + 1) :
                LET r      == renderer[1]
                    candle == visible_candles(r)[k]
                    glyph  == render_candle(r, candle, y)
                IN  /\ glyph \in Glyphs
                    /\ (Ceil(BodyBottomY(r, candle)) <= y
                            /\ y < Floor(BodyTopY(r, candle)))
                        => glyph = UNICODE_BODY
                    /\ y = Floor(BodyTopY(r, candle))
                        => (glyph = UNICODE_BODY
                              <=> GtQuarters(MinusRow(BodyTopY(r, candle), y), 3))

\* the bullish example candle in 20 rows: body top at 13.2, so row 13 shows
\* the wick and rows 12..7 the body
C5_Witness ==
    /\ pc = "rendered"
    /\ Len(candles) = 1
    /\ renderer[1].height = 20
    /\ candles[1].open = 100 /\ candles[1].close = 105
    /\ Floor(BodyTopY(renderer[1], candles[1])) = 13
    /\ Ceil(BodyBottomY(renderer[1], candles[1])) = 7
    /\ render_candle(renderer[1], candles[1], 13) = UNICODE_WICK
    /\ render_candle(renderer[1], candles[1], 12) = UNICODE_BODY
    /\ render_candle(renderer[1], candles[1], 7) = UNICODE_BODY

----------------------------------------------------------------------------
(* PriceScaler properties *)

LowestLow(cs) == CHOOSE l \in { cs[k].low : k \in 1..Len(cs) } :
                    \A k \in 1..Len(cs) : l <= cs[k].low
HighestHigh(cs) == CHOOSE h \in { cs[k].high : k \in 1..Len(cs) } :
                    \A k \in 1..Len(cs) : h >= cs[k].high

\* the last min(len, 250) candles, in order
Window(cs) ==
    [k \in 1..Min(Len(cs), 250) |-> cs[Len(cs) - Min(Len(cs), 250) + k]]

\* C8 as stated: min_price = L - 0.02 * (H - L) and
\* max_price = H + 0.02 * (H - L) for every non-empty window of non-negative
\* prices (both sides multiplied by 50).
C8_MarginBounds_Unclamped ==
    (Drawing /\ Len(candles) > 0) =>
        LET L == LowestLow(Window(candles))
            H == HighestHigh(Window(candles))
        IN  /\ renderer[1].min_price = 50 * L - (H - L)
            /\ renderer[1].max_price = 50 * H + (H - L)

\* C8 amended: min_price = max(L - 0.02 * (H - L), 0) and
\* max_price = H + 0.02 * (H - L).
C8_MarginBounds ==
    (Drawing /\ Len(candles) > 0) =>
        LET L == LowestLow(Window(candles))
            H == HighestHigh(Window(candles))
        IN  /\ renderer[1].min_price = Max(50 * L - (H - L), 0)
            /\ renderer[1].max_price = 50 * H + (H - L)

\* a window whose widened lower bound would be negative
C8_Witness ==
    /\ pc = "constructed"
    /\ Len(candles) = 2
    /\ LowestLow(candles) = 0
    /\ HighestHigh(candles) = 110
    /\ renderer[1].min_price = 0
    /\ renderer[1].max_price = 5610

\* C9: when max_price = min_price, price_to_height is height / 2 for every
\* price; otherwise it is (price - min_price) / (max_price - min_price) *
\* height, 0 at min_price, height at max_price and non-decreasing in price.
\* Prices range over the bounds and the prices of the candles.
C9_PriceToHeight ==
    (Drawing /\ Len(candles) > 0) =>
        LET r == renderer[1]
            P == { r.min_price, r.max_price }
                 \cup { MarginDenominator * candles[k].low : k \in 1..Len(candles) }
                 \cup { MarginDenominator * candles[k].high : k \in 1..Len(candles) }
                 \cup { MarginDenominator * candles[k].open : k \in 1..Len(candles) }
                 \cup { MarginDenominator * candles[k].close : k \in 1..Len(candles) }
        IN  /\ \A p \in P : price_to_height(r, p).den > 0
            /\ r.max_price = r.min_price =>
                  \A p \in P : 2 * price_to_height(r, p).num
                                  = r.height * price_to_height(r, p).den
            /\ r.max_price # r.min_price =>
                  /\ \A p \in P :
                        price_to_height(r, p).num * (r.max_price - r.min_price)
                            = (p - r.min_price) * r.height * price_to_height(r, p).den
                  /\ price_to_height(r, r.min_price).num = 0
                  /\ price_to_height(r, r.max_price).num
                        = r.height * price_to_height(r, r.max_price).den
                  /\ \A p, q \in P :
                        p <= q =>
                            price_to_height(r, p).num * price_to_height(r, q).den
                                <= price_to_height(r, q).num * price_to_height(r, p).den

\* the flat case: two candles at 100 in 5 rows map every price to 2.5
C9_Witness ==
    /\ pc = "constructed"
    /\ Len(candles) = 2
    /\ renderer[1].max_price = renderer[1].min_price
    /\ renderer[1].height = 5
    /\ price_to_height(renderer[1], 5000) = [num |-> 5, den |-> 2]


----------------------------------------------------------------------------
(* Rendering scenarios *)

WickGlyphs ==
    { UNICODE_WICK, UNICODE_UPPER_WICK, UNICODE_LOWER_WICK, UNICODE_TOP,
      UNICODE_BOTTOM }

\* every candle has open = close = high = low, at one common price
FlatSeries(cs) ==
    \A k \in 1..Len(cs) :
        /\ cs[k].open = cs[k].close
        /\ cs[k].high = cs[k].close
        /\ cs[k].low = cs[k].close
        /\ cs[k].close = cs[1].close

\* C6: for a flat series and every chart height, the grid shows the
\* full-body glyph at the mid-height row (row height / 2, rounded either way)
\* in each candle's column, and no wick glyph (full wick, half wick,
\* transition) in any row.
C6_FlatSeriesBodyAtMidHeight ==
    (Rendered /\ renderer[1].height >= 1 /\ FlatSeries(candles)) =>
        LET h == renderer[1].height
        IN  /\ \A k \in 1..Len(candles) :
                  \E y \in { h \div 2, (h + 1) \div 2 } \cap (1..h) :
                      Cell(LineOfRow(y), PlannedColumn(k)) = UNICODE_BODY
            /\ \A y \in 1..h :
                  \A c \in 0..(renderer[1].width - 1) :
                      Cell(LineOfRow(y), c) \notin WickGlyphs

\* glyphs the upper-wick zone selects besides void and full body, and the
\* same for the lower-wick zone
UpperWickGlyphs ==
    { UNICODE_WICK, UNICODE_UPPER_WICK, UNICODE_TOP, UNICODE_HALF_BODY_BOTTOM }
LowerWickGlyphs ==
    { UNICODE_WICK, UNICODE_LOWER_WICK, UNICODE_BOTTOM, UNICODE_HALF_BODY_TOP }

\* the column of candle k read from the top row to the bottom row
Column(k) ==
    [row \in 1..renderer[1].height |-> Cell(row, PlannedColumn(k))]

\* col reads: blank rows, then one or more upper-wick glyphs, then one or
\* more full-body glyphs, then one or more lower-wick glyphs, then blank
\* rows; a glyph holding a part of the body (transition or half body) is
\* only the upper-wick row next to the body, or the lower-wick row next to it
ReadsWickBodyWick(col) ==
    \E a \in 1..(Len(col) + 1) :
        /\ \A i \in 1..(a - 1) : col[i] = UNICODE_VOID
        /\ \E b \in (a + 1)..(Len(col) + 1) :
              /\ \A i \in a..(b - 2) : col[i] \in { UNICODE_WICK, UNICODE_UPPER_WICK }
              /\ col[b - 1] \in UpperWickGlyphs
              /\ \E c \in (b + 1)..(Len(col) + 1) :
                    /\ \A i \in b..(c - 1) : col[i] = UNICODE_BODY
                    /\ \E d \in (c + 1)..(Len(col) + 1) :
                          /\ col[c] \in LowerWickGlyphs
                          /\ \A i \in (c + 1)..(d - 1) :
                                col[i] \in { UNICODE_WICK, UNICODE_LOWER_WICK }
                          /\ \A i \in d..Len(col) : col[i] = UNICODE_VOID

\* upper - lower > halves / 2 rows (the two heights share their denominator)
SpansMoreThan(upper, lower, halves) ==
    2 * (upper.num - lower.num) > halves * upper.den

\* upper wick, body and lower wick of the candle each span more than
\* halves / 2 rows
EachPartSpansMoreThan(r, candle, halves) ==
    /\ SpansMoreThan(HighY(r, candle), BodyTopY(r, candle), halves)
    /\ SpansMoreThan(BodyTopY(r, candle), BodyBottomY(r, candle), halves)
    /\ SpansMoreThan(BodyBottomY(r, candle), LowY(r, candle), halves)

\* C7 as stated: a single bullish candle whose upper wick, body and lower
\* wick each span more than one row reads, top to bottom, upper-wick glyphs,
\* then only full-body glyphs, then lower-wick glyphs, and every cell of its
\* column is coloured bullish.
C7_SingleBullishCandle_OneRow ==
    (/\ Rendered
     /\ Len(candles) = 1
     /\ renderer[1].height >= 1
     /\ is_bullish(candles[1])
     /\ EachPartSpansMoreThan(renderer[1], candles[1], 2)) =>
        /\ ReadsWickBodyWick(Column(1))
        /\ \A row \in 1..renderer[1].height :
              CellColor(row, PlannedColumn(1)) = BULLISH_COLOR

\* C7 amended: the same for a single bullish candle whose upper wick, body
\* and lower wick each span more than one and a half rows.
C7_SingleBullishCandle ==
    (/\ Rendered
     /\ Len(candles) = 1
     /\ renderer[1].height >= 1
     /\ is_bullish(candles[1])
     /\ EachPartSpansMoreThan(renderer[1], candles[1], 3)) =>
        /\ ReadsWickBodyWick(Column(1))
        /\ \A row \in 1..renderer[1].height :
              CellColor(row, PlannedColumn(1)) = BULLISH_COLOR

\* open=100, high=110, low=95, close=105 in 20 rows
C7_Witness ==
    /\ Rendered
    /\ Len(candles) = 1
    /\ renderer[1].height = 20
    /\ candles[1].open = 100 /\ candles[1].high = 110
    /\ candles[1].low = 95 /\ candles[1].close = 105
    /\ EachPartSpansMoreThan(renderer[1], candles[1], 3)
    /\ Column(1) = << " ", ",", "|", "|", "|", "|", "|", "|",
                      "B", "B", "B", "B", "B", "B",
                      "|", "|", "|", "|", "|", "|" >>


----------------------------------------------------------------------------
(* Visible window (checked under SpecWindow) *)

\* C10: the visible window is the last min(len, 250) candles in their
\* original order, and the price bounds and every output line depend only on
\* that window: they are what the window alone, given as the whole series,
\* produces, whatever the candles before it are.
C10_WindowOnly ==
    /\ Drawing =>
          /\ visible_candles(renderer[1]) = Window(candles)
          /\ renderer[1].min_price = new(Window(candles), interval, area).min_price
          /\ renderer[1].max_price = new(Window(candles), interval, area).max_price
    /\ pc = "rendered" =>
          lines = render_lines(new(Window(candles), interval, area))

\* a rendered series whose oldest candle lies before the window and is
\* higher than every visible candle
C10_Witness ==
    /\ Rendered
    /\ Len(candles) = 251
    /\ candles[1].high = 400
    /\ HighestHigh(Window(candles)) = 110
    /\ renderer[1].max_price = 5610
    /\ Len(lines.lines) = renderer[1].height + 3


----------------------------------------------------------------------------
(* AxisLabeler properties (checked under SpecAxis) *)

\* the three axis rows of the output, after the candle rows
TickRow == lines.lines[renderer[1].height + 1]
TimeRow == lines.lines[renderer[1].height + 2]
DateRow == lines.lines[renderer[1].height + 3]

\* chart part of an axis row: what follows the y_axis_width blanks
ChartText(line) ==
    SubSeq(LineText(line), renderer[1].y_axis_width + 1, Len(LineText(line)))

Visible == visible_candles(renderer[1])
Planned == compute_candle_positions(renderer[1].width, Len(Visible))
LabelStrategyOf == x_axis_format(renderer[1].interval).label_strategy
DateFormatOf == x_axis_format(renderer[1].interval).date_format
TimeFormatOf == x_axis_format(renderer[1].interval).time_format

\* candles the date loop labels, in loop order
DateCandidates == InOrder(Labelled(Visible, Planned, DateStrategy(LabelStrategyOf)))

\* the date row after the loop has handled the first n candidates
DateLineAfter(n) ==
    DateLine(Visible, Planned, SubSeq(DateCandidates, 1, n), DateFormatOf, 1,
             Blanks(renderer[1].width))

\* columns (0-based) the date label of candidate n targets
DateSpan(n) ==
    LET date_label == FormatTimestamp(Visible[DateCandidates[n]].timestamp, DateFormatOf)
    IN  LabelStart(Planned, DateCandidates[n], date_label)
          .. (LabelEnd(Planned, DateCandidates[n], date_label, renderer[1].width) - 1)

\* candidate n found a written char in its span and was dropped
DateSkipped(n) == \E c \in DateSpan(n) : DateLineAfter(n - 1)[c + 1] # " "

\* C11: in the date row no column is written by two labels: a date label
\* whose target span already holds a written char is skipped entirely, a
\* written label is written on blank columns only and in full (up to the
\* row's end), and a written char is never changed afterwards.
C11_DateLabelsNeverOverlap ==
    Rendered =>
        /\ ChartText(DateRow) = DateLineAfter(Len(DateCandidates))
        /\ \A n \in 1..Len(DateCandidates) :
              LET before == DateLineAfter(n - 1)
                  after  == DateLineAfter(n)
                  date_label ==
                      FormatTimestamp(Visible[DateCandidates[n]].timestamp, DateFormatOf)
                  date_start == LabelStart(Planned, DateCandidates[n], date_label)
              IN  /\ \A c \in 0..(renderer[1].width - 1) :
                        before[c + 1] # " " => after[c + 1] = before[c + 1]
                  /\ \A c \in (0..(renderer[1].width - 1)) \ DateSpan(n) :
                        after[c + 1] = before[c + 1]
                  /\ IF DateSkipped(n)
                     THEN after = before
                     ELSE \A c \in DateSpan(n) :
                             /\ before[c + 1] = " "
                             /\ after[c + 1] = date_label[c - date_start + 1]

\* a daily series of 72 candles in 12 columns: "Dec" is written, "Jan" one
\* candle later is dropped, "Feb" and "Mar" are written
C11_Witness ==
    /\ Rendered
    /\ interval = "D1"
    /\ Len(candles) = 72
    /\ renderer[1].width = 12
    /\ Len(DateCandidates) = 4
    /\ ~DateSkipped(1) /\ DateSkipped(2) /\ ~DateSkipped(3) /\ ~DateSkipped(4)
    /\ ChartText(DateRow) =
          << "D", "e", "c", " ", "F", "e", "b", " ", " ", "M", "a", "r" >>

\* candles the time loop labels (none when the granularity has no time
\* format: the time row is then blank)
TimeCandidates ==
    IF TimeFormatOf = NoFormat THEN { }
    ELSE Labelled(Visible, Planned, AdjustedStrategy(renderer[1], LabelStrategyOf))

\* columns (0-based) the time label of candle k is written in
TimeSpan(k) ==
    LET time_label == FormatTimestamp(Visible[k].timestamp, TimeFormatOf)
    IN  LabelStart(Planned, k, time_label)
          .. (LabelEnd(Planned, k, time_label, renderer[1].width) - 1)

\* date candidates that were written
DateWritten == { n \in 1..Len(DateCandidates) : ~DateSkipped(n) }

\* C12: the time axis has no overlapping text: in the time row and in the
\* date row no two written labels occupy a common column (so no char of an
\* earlier label is overwritten by a later one), for every granularity,
\* candle count and chart width.
C12_NoOverlappingAxisText ==
    Rendered =>
        /\ \A j, k \in TimeCandidates :
              j # k => TimeSpan(j) \cap TimeSpan(k) = { }
        /\ \A m, n \in DateWritten :
              m # n => DateSpan(m) \cap DateSpan(n) = { }

\* the tick row carries a tick mark in chart column c (0-based)
TickAt(c) == ChartText(TickRow)[c + 1] = UNICODE_WICK

\* C13: every label written in the time row or the date row is centred on a
\* tick column: the column of the candle the label belongs to carries a
\* tick mark in the tick row, for every granularity, wide and narrow charts.
C13_LabelsOnTickColumns ==
    (Rendered /\ renderer[1].width >= 1) =>
        /\ \A k \in TimeCandidates : TickAt(Planned[k].column)
        /\ \A n \in DateWritten : TickAt(Planned[DateCandidates[n]].column)

\* the numeric period of a strategy (DayChanges has none)
Period(strategy) ==
    CASE strategy.tag = "RoundHours" -> strategy.interval_hours
      [] strategy.tag \in { "RegularDays", "RegularWeeks" } -> strategy.interval_days
      [] strategy.tag = "RegularMonths" -> strategy.interval_months
      [] strategy.tag = "RegularYears" -> strategy.interval_years

\* the strategy the tick row and the time row are drawn with
UsedStrategy == AdjustedStrategy(renderer[1], LabelStrategyOf)

\* C14 as stated: below the narrow threshold (80) the period of every
\* strategy with a numeric period (round hours, days, weeks, months, years)
\* is twice the configured one, the day-change strategy is unchanged, and
\* at width >= 80 every period is the configured one.
C14_NarrowDoublesEveryPeriod ==
    Rendered =>
        /\ UsedStrategy.tag = LabelStrategyOf.tag
        /\ Period(UsedStrategy) =
              IF renderer[1].width < 80
              THEN 2 * Period(LabelStrategyOf)
              ELSE Period(LabelStrategyOf)
        /\ AdjustedStrategy(renderer[1], DayChanges) = DayChanges
        /\ ChartText(TickRow) =
              TickLine(Visible, Planned, UsedStrategy, renderer[1].width)

\* C14 amended: below the narrow threshold the period is doubled for the
\* round-hours and every-K-days strategies only; the weeks, months and years
\* periods and the day-change strategy are unchanged; at width >= 80 every
\* period is the configured one.
C14_NarrowDoublesHoursAndDays ==
    Rendered =>
        /\ UsedStrategy.tag = LabelStrategyOf.tag
        /\ Period(UsedStrategy) =
              IF renderer[1].width < 80
                 /\ LabelStrategyOf.tag \in { "RoundHours", "RegularDays" }
              THEN 2 * Period(LabelStrategyOf)
              ELSE Period(LabelStrategyOf)
        /\ \A strategy \in { DayChanges, RegularWeeks(14), RegularMonths(1),
                             RegularYears(1) } :
              AdjustedStrategy(renderer[1], strategy) = strategy
        /\ ChartText(TickRow) =
              TickLine(Visible, Planned, UsedStrategy, renderer[1].width)

\* M5 in 12 columns: ticks every 2 hours (00:00, 02:00, 04:00), none at
\* 01:00 or 03:00
C14_Witness ==
    /\ Rendered
    /\ interval = "M5"
    /\ Len(candles) = 72
    /\ renderer[1].width = 12
    /\ UsedStrategy = RoundHours(2)
    /\ ChartText(TickRow) =
          << " ", " ", "|", " ", " ", " ", "|", " ", " ", " ", "|", " " >>

\* the cap the specification describes: chart width divided by the label
\* width of the format (5 for HH:MM), bounded to 2..10
LabelCap(fmt) ==
    Max(2, Min(10, renderer[1].width
                     \div Len(FormatTimestamp(Visible[1].timestamp, fmt))))

\* C15: the number of labels written in an axis row never exceeds the chart
\* width divided by the estimated label width, that cap being bounded to
\* 2..10, so no axis row carries more than 10 labels.
C15_LabelCountCapped ==
    Rendered =>
        /\ TimeFormatOf # NoFormat =>
              Cardinality(TimeCandidates) <= LabelCap(TimeFormatOf)
        /\ Cardinality(DateWritten) <= LabelCap(DateFormatOf)

\* an axis row without any written char
BlankRow(line) == \A c \in 1..Len(LineText(line)) : LineText(line)[c] = " "

\* C16: the time row carries formatted time labels exactly for the
\* granularities below daily (M5, M15, M30, H1, H4) and is blank for D1 and
\* W1: time_format is present exactly when is_intraday holds, and the hour
\* granularities use round-hour ticks with HH:MM labels.
C16_TimeRowForIntraday ==
    Rendered =>
        /\ (TimeFormatOf # NoFormat) <=> is_intraday(renderer[1].interval)
        /\ ~is_intraday(renderer[1].interval) => BlankRow(TimeRow)
        /\ (is_intraday(renderer[1].interval) /\ TimeFormatOf # NoFormat) =>
              ChartText(TimeRow) =
                  TimeLine(Visible, Planned, UsedStrategy, TimeFormatOf,
                           renderer[1].width)
        /\ renderer[1].interval \in { "H1", "H4" } =>
              /\ LabelStrategyOf.tag = "RoundHours"
              /\ TimeFormatOf = "%H:%M"

\* candles that carry a tick
Ticked == Labelled(Visible, Planned, UsedStrategy)

\* whole days, months or years from candle j to candle k, in the unit of
\* the strategy
UnitsBetween(j, k, strategy) ==
    CASE strategy.tag \in { "RegularDays", "RegularWeeks" } ->
            Abs(num_days(Visible[k].timestamp) - num_days(Visible[j].timestamp))
      [] strategy.tag = "RegularMonths" ->
            Abs((Visible[k].timestamp.year - Visible[j].timestamp.year) * 12
                + (Visible[k].timestamp.month - Visible[j].timestamp.month))
      [] strategy.tag = "RegularYears" ->
            Abs(Visible[k].timestamp.year - Visible[j].timestamp.year)

\* C17: under an "every K days" (months, years) strategy the first candle is
\* labelled and afterwards a candle is labelled exactly when it lies at
\* least K days (months, years) after the previously labelled candle.
C17_EveryKAfterLastLabel ==
    (Rendered /\ UsedStrategy.tag \in { "RegularDays", "RegularWeeks",
                                        "RegularMonths", "RegularYears" }) =>
        /\ 1 \in Ticked
        /\ \A k \in 2..Len(Visible) :
              k \in Ticked <=>
                  UnitsBetween(Last({ j \in Ticked : j < k }), k, UsedStrategy)
                      >= Period(UsedStrategy)

----------------------------------------------------------------------------
(* Run-length encoding of the candle rows (checked under Spec) *)

\* the spans of candle row y after the Y-axis span
RowSpans(y) == Tail(lines.lines[LineOfRow(y)])

\* the character and colour arrays of candle row y before encoding
RowArray(y) == PlaceCandles(renderer[1], y, Visible, Planned)

\* C18: run-length encoding of a candle row is lossless and maximal: the
\* text of the spans after the Y-axis span, concatenated, is the row's
\* character array, every char carries the colour of its cell, and no two
\* adjacent spans have the same colour.
C18_RunLengthEncoding ==
    Rendered =>
        \A y \in 1..renderer[1].height :
            /\ LineText(RowSpans(y)) = RowArray(y).line_chars
            /\ Len(LineText(RowSpans(y))) = renderer[1].width
            /\ \A c \in 1..renderer[1].width :
                  CharColor(RowSpans(y), c) = RowArray(y).line_colors[c]
            /\ \A k \in 1..Len(RowSpans(y)) : Len(RowSpans(y)[k].content) >= 1
            /\ \A k \in 1..(Len(RowSpans(y)) - 1) :
                  RowSpans(y)[k].fg # RowSpans(y)[k + 1].fg

\* a bearish then a bullish candle in 12 columns: a row with a bearish
\* cell, a run of 5 uncoloured cells, a bullish cell, a run of 5
C18_Witness ==
    /\ Rendered
    /\ Len(candles) = 2
    /\ renderer[1].width = 12
    /\ \E y \in 1..renderer[1].height :
          /\ Len(RowSpans(y)) = 4
          /\ RowSpans(y)[1].fg = BEARISH_COLOR /\ Len(RowSpans(y)[1].content) = 1
          /\ RowSpans(y)[2].fg = NoColor /\ Len(RowSpans(y)[2].content) = 5
          /\ RowSpans(y)[3].fg = BULLISH_COLOR /\ Len(RowSpans(y)[3].content) = 1
          /\ RowSpans(y)[4].fg = NoColor /\ Len(RowSpans(y)[4].content) = 5

----------------------------------------------------------------------------
(* Degenerate viewports *)

\* C19: render_lines returns no line at all when the candle window is
\* empty; for a non-empty window it returns exactly max(area.height - 6, 0)
\* candle rows followed by exactly 3 axis rows, so with a chart height of 0
\* it returns the 3 axis rows and no candle row.
C19_RowCount ==
    pc = "rendered" =>
        /\ lines.status = "ok"
        /\ Len(candles) = 0 => lines.lines = << >>
        /\ Len(candles) > 0 =>
              /\ Len(lines.lines) = Max(area.height - 6, 0) + 3
              /\ \A k \in 1..Max(area.height - 6, 0) :
                    lines.lines[k][1].content = render_y_axis(renderer[1], LineOfRow(k))
              /\ lines.lines[Max(area.height - 6, 0) + 1][1].content
                    = Blanks(renderer[1].y_axis_width)

\* C20 as stated: for every viewport narrower than the minimum (80
\* columns) render_candlestick_chart outputs the "terminal too narrow"
\* placeholder and never a row of the candle grid, whatever the selected
\* ticker and candle series.
C20_TooNarrowPlaceholder_Always ==
    (pc = "drawn" /\ area.width < MIN_TERMINAL_WIDTH) =>
        /\ frame = render_too_narrow(area)
        /\ frame.widget # "chart"

\* C20 amended: for every viewport narrower than the minimum no row of the
\* candle grid is output; the output is the "terminal too narrow"
\* placeholder when a ticker with a non-empty candle series is selected, and
\* the no-data message otherwise (the selection and the data are tested
\* first).
C20_TooNarrowPlaceholder ==
    (pc = "drawn" /\ area.width < MIN_TERMINAL_WIDTH) =>
        /\ frame.widget # "chart"
        /\ (item # NoItem /\ item[1].data = "Some" /\ Len(candles) > 0)
              => frame = render_too_narrow(area)
        /\ ~(item # NoItem /\ item[1].data = "Some" /\ Len(candles) > 0)
              => frame.widget = "no_data"

\* a 79-column terminal with a loaded ticker
C20_Witness ==
    /\ pc = "drawn"
    /\ area.width = 79
    /\ item = ItemWithData
    /\ Len(candles) = 2
    /\ frame.widget = "too_narrow"
    /\ Len(frame.text) = 6

\* C21: for every candle series, granularity and viewport size given to
\* CandlestickRenderer::new, chart width 0 and chart height 0 included,
\* render_lines completes and returns its lines: no index is out of range
\* and no failure is raised.
C21_RenderLinesCompletes ==
    pc = "rendered" => lines.status # "panic"

----------------------------------------------------------------------------
(* PositionPlanner: degenerate candle counts (checked under SpecPositions) *)

\* C29: with exactly one visible candle its column is chart_width / 2
\* (integer division: the c with 2c <= chart_width <= 2c + 1) for every
\* chart_width, and with zero candles no position is produced.
C29_SingleCandleCentred ==
    pc = "planned" =>
        /\ num_candles = 1 =>
              /\ Len(positions) = 1
              /\ 2 * positions[1].column <= chart_width
              /\ chart_width <= 2 * positions[1].column + 1
              /\ positions[1].width = 1
        /\ num_candles = 0 => positions = << >>

\* one candle in 7 columns sits in column 3
C29_Witness ==
    /\ pc = "planned"
    /\ num_candles = 1
    /\ chart_width = 7
    /\ positions = << CandlePosition(3) >>

----------------------------------------------------------------------------
(* Candle colour (checked under Spec) *)

\* candles whose column no later candle overwrites
Shown == { k \in 1..Len(Visible) : k = Last(CandlesAt(Visible, Planned, PlannedColumn(k))) }

\* C30: a candle's colour is binary and depends only on open and close: the
\* bullish colour when close >= open (close = open included), the bearish
\* colour otherwise, and it is the same in every row of the candle's column.
C30_BinaryColour ==
    Rendered =>
        \A k \in Shown :
            \A row \in 1..renderer[1].height :
                CellColor(row, PlannedColumn(k)) =
                    IF Visible[k].close >= Visible[k].open
                    THEN BULLISH_COLOR
                    ELSE BEARISH_COLOR

\* a flat candle (close = open) drawn bullish next to a bearish candle, in
\* every one of 4 rows
C30_Witness ==
    /\ Rendered
    /\ renderer[1].height = 4
    /\ Len(candles) = 2
    /\ Shown = { 1, 2 }
    /\ candles[1].close = candles[1].open
    /\ candles[2].close < candles[2].open
    /\ \A row \in 1..4 :
          /\ CellColor(row, PlannedColumn(1)) = BULLISH_COLOR
          /\ CellColor(row, PlannedColumn(2)) = BEARISH_COLOR

----------------------------------------------------------------------------
(* Properties of the event loop *)

\* the OHLCData held by the watchlist or on its way to it
Loaded ==
    { app.watchlist[k].data[1] :
        k \in { j \in 1..Len(app.watchlist) : app.watchlist[j].data # << >> } }
    \cup { results[k].data :
        k \in { j \in 1..Len(results) :
                  results[j].result \in { "TickerDataLoaded", "TickerAdded" } } }

\* C22: quitting needs two consecutive 'q' presses: confirm_quit is set only
\* while the last key pressed is 'q' (any other key clears it), and running
\* turns false only on a 'q' press that follows a 'q' press, on every screen.
C22_QuitNeedsTwoConsecutiveQ ==
    [][ /\ app'.confirm_quit => trace'.key = "q"
        /\ (app.running /\ ~app'.running) => (trace.key = "q" /\ trace'.key = "q") ]_vars

\* C23: deleting needs two consecutive 'd' presses on the Dashboard:
\* confirm_delete is set only while the last key pressed is 'd' (any other
\* key clears it), and an item leaves the watchlist only on a 'd' press that
\* follows a 'd' press; the item removed is the selected one.
C23_DeleteNeedsTwoConsecutiveD ==
    [][ /\ app'.confirm_delete => trace'.key = "d"
        /\ Len(app'.watchlist) < Len(app.watchlist) =>
              /\ trace.key = "d" /\ trace'.key = "d"
              /\ app.current_screen = "Dashboard"
              /\ app'.watchlist = Remove(app.watchlist, app.selected_index) ]_vars

C25_InputBufferEmptyOutsideInputMode ==
    /\ [](app.current_screen # "InputMode" =>
             app.input_buffer = << >> /\ app.input_prompt = << >>)
    /\ [][ /\ (app.current_screen # "InputMode" /\ app'.current_screen = "InputMode") =>
                 app'.input_buffer = << >>
           /\ Len(app'.input_buffer) > Len(app.input_buffer) =>
                 (app.current_screen = "InputMode" /\ app'.current_screen = "InputMode")
           /\ (app.current_screen = "InputMode" /\ app'.current_screen # "InputMode") =>
                 /\ trace'.key \in { "Enter", "Esc" }
                 /\ app'.current_screen = "Dashboard"
                 /\ app'.input_buffer = << >>
                 /\ app'.input_prompt = << >> ]_vars

\* a typed ticker was validated: its command is on its way, the buffer is empty
C25_Witness ==
    /\ trace.key = "Enter"
    /\ app.current_screen = "Dashboard"
    /\ app.input_buffer = << >>
    /\ commands = << AddTicker(<< "D" >>) >>

\* C26: default_timeframe maps M30 to OneMonth, H1 to OneMonth, D1 to
\* SixMonths and W1 to TwoYears, and the timeframe stored with the data of an
\* interval is exactly its default timeframe (OHLCData::with_interval).
C26_DefaultTimeframes ==
    \A d \in Loaded :
        /\ d.interval = "M30" => d.timeframe = "OneMonth"
        /\ d.interval = "H1" => d.timeframe = "OneMonth"
        /\ d.interval = "D1" => d.timeframe = "SixMonths"
        /\ d.interval = "W1" => d.timeframe = "TwoYears"
        /\ d = with_interval(d.symbol, d.interval)

\* the provider serves at most 60 days of intraday data
INTRADAY_MAX_DAYS == 60

\* C27: for every intraday interval the span requested from the provider,
\* default_timeframe().to_days(), is at most 60 days.
C27_IntradaySpanWithinLimit ==
    \A d \in Loaded :
        is_intraday(d.interval) => to_days(d.timeframe) <= INTRADAY_MAX_DAYS

\* the cycle of the intervals, and an interval's place in it (from 0)
IntervalCycle == << "M5", "M15", "M30", "H1", "H4", "D1", "W1" >>
CycleIndex(i) == CHOOSE k \in 0..6 : IntervalCycle[k + 1] = i

C36_TickerCharsAreTyped ==
    [][ \A event \in Keys :
            (is_in_input_mode(app) /\ is_ticker_char_event(event) /\ Handle(event))
                => app' = [app EXCEPT !.input_buffer = Append(@, event)] ]_vars

----------------------------------------------------------------------------
(* Repeated draws (checked under SpecReplay) *)

----------------------------------------------------------------------------
(* The two threads (checked under SpecLoop) *)

\* C32: under every interleaving of key events with the worker, a
\* TickerDataLoaded result is stored in the item whose symbol the reload was
\* asked for: every item that has data has the data of its own symbol.
C32_DataBelongsToItem ==
    \A k \in 1..Len(app.watchlist) :
        app.watchlist[k].data # << >> =>
            app.watchlist[k].data[1].symbol = app.watchlist[k].symbol

\* the worker serves a command as the claim describes: is_loading is set
\* from the fetch to stop_loading, the one result is sent after the fetch and
\* is of the command's kind, and an idle worker leaves is_loading false and
\* no message
WorkerProtocol ==
    /\ worker.pc \in { "fetch", "send" } =>
          /\ app.is_loading
          /\ app.loading_message # << >>
          /\ worker.sent = 0
    /\ worker.pc = "stop_loading" =>
          /\ app.is_loading
          /\ worker.sent = 1
          /\ worker.result[1].result \in
                (IF worker.command[1].command = "ReloadTickerData"
                 THEN { "TickerDataLoaded", "LoadError" }
                 ELSE { "TickerAdded", "AddError" })
    /\ worker.pc = "recv" =>
          /\ ~app.is_loading
          /\ app.loading_message = << >>
          /\ log.answered = log.received

\* C33 as stated: the worker's protocol, and every command sent is
\* eventually answered (each fetch terminates: WorkerFetch is fair).
C33_EveryCommandAnswered ==
    /\ []WorkerProtocol
    /\ \A n \in 1..MaxSent : (Len(log.sent) >= n) ~> (log.answered >= n)

\* C33: for every command it receives the worker sets is_loading before the
\* fetch, sends exactly one result of the matching kind, then clears
\* is_loading and the message; an idle worker leaves is_loading false; and
\* every command sent is eventually answered unless the user quits (the
\* process then ends without waiting for the worker).
C33_EveryCommandAnsweredUnlessQuit ==
    /\ []WorkerProtocol
    /\ \A n \in 1..MaxSent :
          (Len(log.sent) >= n) ~> (log.answered >= n \/ ~app.running)

\* an add and a reload were both served, the worker is idle again
C33_Witness ==
    /\ worker.pc = "recv"
    /\ log.answered = 2
    /\ log.sent[1].command = "AddTicker"
    /\ log.sent[2].command = "ReloadTickerData"
    /\ app.running
    /\ ~app.is_loading

\* the result r is an answer to the command c
Answers(r, c) ==
    IF c.command = "ReloadTickerData"
    THEN \/ /\ r.result = "TickerDataLoaded"
            /\ r.index = c.index
            /\ r.data.symbol = c.symbol
            /\ r.data.interval = c.interval
         \/ /\ r.result = "LoadError"
            /\ r.index = c.index
            /\ r.symbol = c.symbol
    ELSE /\ r.result \in { "TickerAdded", "AddError" }
         /\ r.symbol = c.symbol

\* nothing is on its way: every command sent was served and its result taken
Quiescent ==
    /\ commands = << >>
    /\ results = << >>
    /\ worker.pc = "recv"
    /\ ui.result = << >>

\* every command sent is a reload of the item that the first one reloads
ReloadsOfOneItem ==
    /\ log.sent # << >>
    /\ \A k \in 1..Len(log.sent) :
          /\ log.sent[k].command = "ReloadTickerData"
          /\ log.sent[k].index = log.sent[1].index

\* C34: the worker serves the commands one at a time in the order they were
\* sent, run takes the results in that same order, at most one per loop
\* iteration; and once several interval changes on one item have all been
\* served successfully, with no deletion, the item's data has the interval
\* of the last change.
C34_CommandsAndResultsInOrder ==
    /\ commands = SubSeq(log.sent, log.received + 1, Len(log.sent))
    /\ worker.command # << >> => worker.command[1] = log.sent[log.received]
    /\ worker.result # << >> => Answers(worker.result[1], log.sent[log.received])
    /\ log.answered = log.taken + Len(results)
    /\ \A k \in 1..Len(results) : Answers(results[k], log.sent[log.taken + k])
    /\ ui.result # << >> => Answers(ui.result[1], log.sent[log.taken])
    /\ ui.taken <= 1
    /\ (Quiescent /\ ReloadsOfOneItem /\ ~log.failed /\ ~log.deleted) =>
          LET last == log.sent[Len(log.sent)]
          IN  /\ last.index < Len(app.watchlist)
              /\ app.watchlist[last.index + 1].data # << >>
              /\ app.watchlist[last.index + 1].data[1].interval = last.interval

\* two interval changes on AAPL, both served and applied: its data is H4
C34_Witness ==
    /\ Quiescent
    /\ ReloadsOfOneItem
    /\ ~log.failed
    /\ ~log.deleted
    /\ Len(log.sent) = 2
    /\ log.sent[1].interval = "H1"
    /\ log.sent[2].interval = "H4"
    /\ log.taken = 2
    /\ app.watchlist[1].data[1].interval = "H4"

\* the steps of run and the steps of the worker
UiNext ==
    \/ UiLock \/ UiIsRunning \/ UiTryRecv \/ UiApply \/ UiDraw
    \/ UiNextEvent \/ UiHandleEvent \/ UiTick

WorkerNext ==
    \/ WorkerRecv \/ WorkerLock \/ WorkerStartLoading \/ WorkerFetch
    \/ WorkerSend \/ WorkerStopLoading

\* C35: the worker holds the App mutex only in the blocks that set and clear
\* the loading flag, never during a fetch; neither thread calls app.lock()
\* while it holds the mutex; during a fetch run gets the mutex as soon as it
\* asks for it; and there is no deadlock: until run returns it can take a
\* step or waits for the worker which can, and a worker serving a command
\* can take a step or waits for run which can.
C35_MutexDiscipline ==
    /\ mutex = "worker" <=> (worker.pc \in WorkerLocking /\ ~worker.lock)
    /\ mutex = "ui" <=> (ui.pc \in UiLocking /\ ~ui.lock)
    /\ worker.pc = "fetch" => mutex # "worker"
    /\ ui.lock => mutex # "ui"
    /\ worker.lock => mutex # "worker"
    /\ (worker.pc = "fetch" /\ ui.lock) => ENABLED UiLock
    /\ ui.pc \notin { "returned", "exited" } =>
          \/ ENABLED UiNext
          \/ mutex = "worker" /\ ENABLED WorkerNext
    /\ (worker.pc # "recv" /\ ui.pc # "exited") =>
          \/ ENABLED WorkerNext
          \/ mutex = "ui" /\ ENABLED UiNext

\* run handles a key under the lock while the worker is fetching
C35_Witness ==
    /\ worker.pc = "fetch"
    /\ mutex = "ui"
    /\ ui.pc = "handle_event"
    /\ ui.event # << Tick >>
    /\ app.is_loading

====
